---------------------------- MODULE Spec2Model ----------------------------
(***************************************************************************)
(* A model of the markup-to-document compiler of lumi's import pipeline    *)
(* (functions/import_pipeline/import_pipeline.py) and of the cloud         *)
(* functions that drive it (functions/main.py):                            *)
(*                                                                         *)
(*   SpecSections  convert_to_lumi_sections: the heading stack             *)
(*   SpecParse     parse_text_and_extract_inner_tags                       *)
(*   SpecSpans     create_lumi_spans                                       *)
(*   SpecFig       preprocess_and_replace_figures, then                    *)
(*                 _parse_html_block_for_lumi_contents                     *)
(*   SpecList      _get_list_content_from_tag                              *)
(*   SpecRefs      convert_model_output_to_lumi_doc: the references loop   *)
(*   SpecParseSteps  parse_text_and_extract_inner_tags, one loop iteration *)
(*                 at a time                                               *)
(*   SpecTrigger   on_document_import_requested and the document it writes *)
(*   SpecCalls     the callable endpoints                                  *)
(*   SpecWalk      convert_to_lumi_sections: the walk over the tree and    *)
(*                 visited_tags                                            *)
(*   SpecIds       get_unique_id calls of the figure and list extractors   *)
(*   SpecChain     the chain of trigger invocations, with fairness         *)
(*   SpecRace      concurrent _try_doc_write calls and the trigger         *)
(*                                                                         *)
(* Text is a sequence of tokens.  A token is one plain character or one    *)
(* whole marker (an inline start or end marker, the placeholder prefix or  *)
(* suffix, a block marker).  Offsets count tokens.                         *)
(***************************************************************************)
EXTENDS Integers, Sequences, FiniteSets, TLC

VARIABLES
    \* convert_to_lumi_sections
    blocks,           \* the tags the walk has visited so far, in document order
    sections,         \* the LumiSection objects created so far, by id
    root_sections,    \* ids of the top-level sections, in list order
    section_stack,    \* ids of the open sections, bottom first
    \* parse_text_and_extract_inner_tags
    raw_content,      \* the argument
    parse_pc,         \* "call" before the call, "return" after it
    parse_result,     \* the returned (cleaned_text_content, inner_tags)
    call_stack,       \* the frames of the calls at work, when the walk is
                      \* followed one loop iteration at a time
    \* create_lumi_spans
    cleaned_text,     \* argument
    all_inner_tags,   \* argument
    skip_tokenize,    \* argument
    no_break,         \* the segmenter's decisions: candidate breaks it declines
    spans_pc,         \* "call" / "return"
    lumi_spans,       \* the returned list of LumiSpan
    \* preprocess_and_replace_figures and _parse_html_block_for_lumi_contents
    raw_markdown_string,  \* argument: the model output, block markers included
    placeholder_map,      \* the caller-supplied map (a set of key/content pairs)
    processed_html,       \* the text returned by preprocess_and_replace_figures
    lumi_contents,        \* the list returned by _parse_html_block_for_lumi_contents
    id_calls,             \* number of get_unique_id() calls made so far
    fig_pc,               \* "call" / "preprocessed" / "return"
    \* _get_list_content_from_tag
    tag,              \* argument: a <ul>/<ol> node
    list_pc,          \* "call" / "return"
    list_content,     \* the returned LumiContent
    \* convert_model_output_to_lumi_doc: the references loop
    references,       \* parsed_data.get("references"): the parsed items
    lumi_references,  \* the list of LumiReference built so far
    refs_pc,          \* "loop" / "return"
    \* main.py: the versioned document, its trigger and the callable endpoints
    doc,              \* the Firestore document arxiv_docs/{id}/versions/{v}
    events,           \* written snapshots whose trigger has not run yet
    running,          \* snapshots seen by the invocations still at work
    n_writes,         \* number of writes made to the document
    last_call,        \* the last call of a callable endpoint, and what it did
    \* convert_to_lumi_sections: the walk over the parsed tree
    soup,             \* the top-level nodes of the parsed html
    walk_next,        \* how many nodes the generator has handed out
    visited_tags,     \* the set visited_tags
    walk_contents,    \* the contents made so far, each with its tag's place
    \* _try_doc_write: the calls between their read and their write
    snapshots         \* what doc_ref.get() returned to each call still under way

sectionVars == <<blocks, sections, root_sections, section_stack>>
parseVars   == <<raw_content, parse_pc, parse_result, call_stack>>
spansVars   == <<cleaned_text, all_inner_tags, skip_tokenize, no_break,
                 spans_pc, lumi_spans>>
figVars     == <<raw_markdown_string, placeholder_map, processed_html,
                 lumi_contents, id_calls, fig_pc>>
listVars    == <<tag, list_pc, list_content>>
refVars     == <<references, lumi_references, refs_pc>>
mainVars    == <<doc, events, running, n_writes, last_call>>
walkVars    == <<soup, walk_next, visited_tags, walk_contents>>
txVars      == <<snapshots>>
vars == <<sectionVars, parseVars, spansVars, figVars, listVars, refVars, mainVars,
          walkVars, txVars>>

(***************************************************************************)
(* Bounds of the model.                                                    *)
(***************************************************************************)
MaxHeadings == 5      \* heading tags in one convert_to_lumi_sections call
MaxContents == 4      \* content tags in one convert_to_lumi_sections call
MaxLevel    == 3      \* heading tags h1..hMaxLevel
MaxRawLen   == 6      \* tokens in the argument of parse_text_and_extract_inner_tags
MaxTextLen  == 5      \* characters in the cleaned_text given to create_lumi_spans
MaxTags     == 1      \* annotations in the all_inner_tags given to create_lumi_spans
MaxItems    == 4      \* characters and block markers in the raw_markdown_string
MaxListItems == 1     \* li tags directly in the tag given to _get_list_content_from_tag
MaxChildren == 3      \* child nodes of one li tag

(***************************************************************************)
(* Generic helpers.                                                        *)
(***************************************************************************)
Range(s) == {s[i] : i \in 1..Len(s)}

Last(s) == s[Len(s)]

Front(s) == SubSeq(s, 1, Len(s) - 1)

Max(a, b) == IF a >= b THEN a ELSE b

Min(a, b) == IF a <= b THEN a ELSE b

\* All sequences over S of length 0..n.
SeqsUpTo(S, n) == UNION {[1..k -> S] : k \in 0..n}

\* Python's s[a:b] for 0 <= a, with 0-based offsets.
Slice(s, a, b) == SubSeq(s, a + 1, b)

\* Number of positions of s holding a token of the set toks.
Count(s, toks) == Cardinality({i \in 1..Len(s) : s[i] \in toks})

\* s with the tokens outside the set toks removed.
Keep(s, toks) == SelectSeq(s, LAMBDA x : x \in toks)

\* The element of a one-element set; Only({e(x) : x \in {v}}) is e(v), with v
\* worked out once.
Only(S) == CHOOSE x \in S : TRUE

(***************************************************************************)
(* The components a specification does not exercise stay in these states.  *)
(***************************************************************************)
SectionsIdle ==
    /\ blocks = <<>>
    /\ sections = <<>>
    /\ root_sections = <<>>
    /\ section_stack = <<>>

ParseIdle ==
    /\ raw_content = <<>>
    /\ parse_pc = "idle"
    /\ parse_result = <<>>
    /\ call_stack = <<>>

SpansIdle ==
    /\ cleaned_text = <<>>
    /\ all_inner_tags = <<>>
    /\ skip_tokenize = FALSE
    /\ no_break = {}
    /\ spans_pc = "idle"
    /\ lumi_spans = <<>>

FigIdle ==
    /\ raw_markdown_string = <<>>
    /\ placeholder_map = <<>>
    /\ processed_html = <<>>
    /\ lumi_contents = <<>>
    /\ id_calls = 0
    /\ fig_pc = "idle"

ListIdle ==
    /\ tag = <<>>
    /\ list_pc = "idle"
    /\ list_content = <<>>

RefsIdle ==
    /\ references = <<>>
    /\ lumi_references = <<>>
    /\ refs_pc = "idle"

MainIdle ==
    /\ doc = <<>>
    /\ events = <<>>
    /\ running = <<>>
    /\ n_writes = 0
    /\ last_call = <<>>

TxIdle == snapshots = <<>>

WalkIdle ==
    /\ soup = <<>>
    /\ walk_next = 0
    /\ visited_tags = {}
    /\ walk_contents = <<>>

(***************************************************************************)
(* convert_to_lumi_sections.                                               *)
(*                                                                         *)
(* A LumiSection object is identified by the position, in document order,  *)
(* of the tag that made it be created (its heading, or for the default     *)
(* section the content tag that found the stack empty).  `sections` is the *)
(* heap: a function from the ids created so far to the objects; the two    *)
(* lists hold ids, as the Python lists hold references.                    *)
(***************************************************************************)
HeadingTags == {[name |-> "h", level |-> l] : l \in 1..MaxLevel}

\* A <p>/<code>/<pre> tag holding text (its decoded contents do not strip to
\* nothing, so _parse_html_block_for_lumi_contents returns one TextContent).
ContentTags == {[name |-> "p"]}

NumTags(name) == Cardinality({i \in 1..Len(blocks) : blocks[i].name = name})

\* Heading(heading_level, text) is held as two fields of the section.
LumiSection(heading_level, heading_text) ==
    [heading_level |-> heading_level, heading_text |-> heading_text,
     contents |-> <<>>, sub_sections |-> <<>>]

\* heading_text = "".join(tag.find_all(text=True, recursive=False)); the walk
\* does not look at it.
HeadingText == <<"a">>

\* Mutant: the default section is a level-1 section.
default_section_LevelOne == LumiSection(1, <<>>)

\* default_section = LumiSection(heading=Heading(heading_level=0, text=""), ...)
default_section == LumiSection(0, <<>>)

\* Mutant: pops only the strictly deeper sections.
RECURSIVE PopToParent_PopDeeperOnly(_, _, _)
PopToParent_PopDeeperOnly(stack, heap, heading_level) ==
    IF stack # <<>> /\ heap[Last(stack)].heading_level > heading_level
    THEN PopToParent_PopDeeperOnly(Front(stack), heap, heading_level)
    ELSE stack

\* Mutant: nothing is popped.
PopToParent_Never(stack, heap, heading_level) == stack

\* Mutant: every open section is popped.
PopToParent_All(stack, heap, heading_level) == <<>>

\* Mutant: pops the top section only.
PopToParent_PopOne(stack, heap, heading_level) ==
    IF stack # <<>> /\ heap[Last(stack)].heading_level >= heading_level
    THEN Front(stack)
    ELSE stack

\* while section_stack and section_stack[-1].heading.heading_level >= heading_level:
\*     section_stack.pop()
RECURSIVE PopToParent(_, _, _)
PopToParent(stack, heap, heading_level) ==
    IF stack # <<>> /\ heap[Last(stack)].heading_level >= heading_level
    THEN PopToParent(Front(stack), heap, heading_level)
    ELSE stack

\* The loop body for a heading tag.
HeadingTag(t) ==
    LET id == Len(blocks) + 1
        withNew == sections @@ (id :> LumiSection(t.level, HeadingText))
        popped == PopToParent(section_stack, sections, t.level)
    IN  /\ blocks' = Append(blocks, t)
        /\ IF popped # <<>>
           THEN /\ sections' =
                     [withNew EXCEPT ![Last(popped)].sub_sections = Append(@, id)]
                /\ root_sections' = root_sections
           ELSE /\ sections' = withNew
                /\ root_sections' = Append(root_sections, id)
        /\ section_stack' = Append(popped, id)

\* The loop body for a content tag that was not visited before.
ContentTag(t) ==
    LET id == Len(blocks) + 1
        needDefault == section_stack = <<>>
        heap == IF needDefault THEN sections @@ (id :> default_section) ELSE sections
        stack == IF needDefault THEN <<id>> ELSE section_stack
        current_section == Last(stack)
        \* the content made from this tag, named by the tag's position
        new_contents == <<id>>
    IN  /\ blocks' = Append(blocks, t)
        /\ section_stack' = stack
        /\ root_sections' = IF needDefault THEN Append(root_sections, id)
                                           ELSE root_sections
        /\ sections' = [heap EXCEPT ![current_section].contents = @ \o new_contents]

SectionsInit ==
    /\ SectionsIdle
    /\ ParseIdle /\ SpansIdle /\ FigIdle /\ ListIdle /\ RefsIdle /\ MainIdle /\ WalkIdle /\ TxIdle

SectionsNext ==
    /\ \/ /\ NumTags("h") < MaxHeadings
          /\ \E t \in HeadingTags : HeadingTag(t)
       \/ /\ NumTags("p") < MaxContents
          /\ \E t \in ContentTags : ContentTag(t)
    /\ UNCHANGED <<parseVars, spansVars, figVars, listVars, refVars, mainVars, walkVars, txVars>>

SpecSections == SectionsInit /\ [][SectionsNext]_vars

(***************************************************************************)
(* C1: after any sequence of heading and content tags, every section held  *)
(* in some section's sub_sections has a heading level strictly greater     *)
(* than that parent's, and the top-level sections and the siblings of      *)
(* every sub_sections list appear in source order; H1,H2,P,H3,P,H2,P,H1,P  *)
(* yields two top-level sections, the first with two subsections of which  *)
(* the first has one sub-subsection.                                       *)
(***************************************************************************)
InSourceOrder(ids) == \A i, j \in 1..Len(ids) : i < j => ids[i] < ids[j]

H(l) == [name |-> "h", level |-> l]

P == [name |-> "p"]

NestedHeadingsExample == <<H(1), H(2), P, H(3), P, H(2), P, H(1), P>>

NestedHeadingsShape ==
    /\ root_sections = <<1, 8>>
    /\ sections[1].sub_sections = <<2, 6>>
    /\ sections[2].sub_sections = <<4>>
    /\ sections[4].sub_sections = <<>>
    /\ sections[6].sub_sections = <<>>
    /\ sections[8].sub_sections = <<>>
    /\ sections[1].contents = <<>>
    /\ sections[2].contents = <<3>>
    /\ sections[4].contents = <<5>>
    /\ sections[6].contents = <<7>>
    /\ sections[8].contents = <<9>>

C1_SubSectionLevelsAndOrder ==
    /\ \A p \in DOMAIN sections :
          /\ \A k \in 1..Len(sections[p].sub_sections) :
                sections[sections[p].sub_sections[k]].heading_level
                    > sections[p].heading_level
          /\ InSourceOrder(sections[p].sub_sections)
    /\ InSourceOrder(root_sections)
    /\ (blocks = NestedHeadingsExample => NestedHeadingsShape)

C1_Witness ==
    /\ blocks = NestedHeadingsExample
    /\ NestedHeadingsShape
    /\ sections[4].heading_level > sections[2].heading_level

(***************************************************************************)
(* The inline tag table (shared/import_tags.py, TAG_DEFINITIONS) and        *)
(* parse_text_and_extract_inner_tags.                                      *)
(*                                                                         *)
(* Every pattern of the table is a start marker, a lazily matched content  *)
(* group and an end marker; the tests show three shapes: distinct start    *)
(* and end markers (<b>..</b>, and <u>, <i>, <code>, <a>, the span          *)
(* reference), one id-keyed marker that both opens and closes (concept,    *)
(* citation, and the math dollar), and, in the words of the spec, markers  *)
(* without a content group.  One tag of each shape is modelled.            *)
(***************************************************************************)
PlainTokens == {"a", "x"}

TAG_DEFINITIONS ==
    << [name |-> "b",       open |-> "<b>", close |-> "</b>", has_content |-> TRUE,
        metadata |-> "none"],
       [name |-> "concept", open |-> "[c]", close |-> "[c]",  has_content |-> TRUE,
        metadata |-> "id:c"],
       [name |-> "marker",  open |-> "[z]", close |-> "[z]",  has_content |-> FALSE,
        metadata |-> "none"] >>

MarkerTokens ==
    UNION {{TAG_DEFINITIONS[k].open, TAG_DEFINITIONS[k].close} :
              k \in 1..Len(TAG_DEFINITIONS)}

RawTokens == PlainTokens \cup MarkerTokens

\* The least 0-based index >= from at which s holds tok, or -1.
IndexOf(s, tok, from) ==
    LET hits == {i \in from..(Len(s) - 1) : s[i + 1] = tok}
    IN  IF hits = {} THEN -1
        ELSE CHOOSE i \in hits : \A j \in hits : i <= j

NoMatch == [start |-> -1, end |-> -1, content |-> <<>>]

\* tag_definition["pattern"].search(raw_content, pos): the leftmost start
\* marker from which the pattern matches, closed by the nearest end marker.
Search(tag_definition, raw, pos) ==
    LET i == IndexOf(raw, tag_definition.open, pos)
        j == IF i = -1 THEN -1 ELSE IndexOf(raw, tag_definition.close, i + 1)
    IN  IF i = -1 THEN NoMatch
        ELSE IF ~tag_definition.has_content
             THEN [start |-> i, end |-> i + 1, content |-> <<>>]
        ELSE IF j = -1 THEN NoMatch
        ELSE [start |-> i, end |-> j + 1, content |-> Slice(raw, i + 1, j)]

\* The for loop over TAG_DEFINITIONS: the index of the definition whose match
\* starts first (the first of the table on a tie), or 0 when none matches.
EarliestMatch(raw, pos) ==
    LET found == {k \in 1..Len(TAG_DEFINITIONS) :
                     Search(TAG_DEFINITIONS[k], raw, pos).start # -1}
    IN  IF found = {} THEN 0
        ELSE CHOOSE k \in found : \A k2 \in found :
                 \/ Search(TAG_DEFINITIONS[k], raw, pos).start
                        < Search(TAG_DEFINITIONS[k2], raw, pos).start
                 \/ /\ Search(TAG_DEFINITIONS[k], raw, pos).start
                        = Search(TAG_DEFINITIONS[k2], raw, pos).start
                    /\ k <= k2

Position(start_index, end_index) ==
    [start_index |-> start_index, end_index |-> end_index]

InnerTag(tag_name, metadata, position, children) ==
    [tag_name |-> tag_name, metadata |-> metadata, position |-> position,
     children |-> children]

\* Mutant: the end index names the last character of the content.
TagEndIndex_Inclusive(current_position_cleaned) == current_position_cleaned - 1

\* tag_end_index = current_position_cleaned
TagEndIndex(current_position_cleaned) == current_position_cleaned

\* Mutant: the text after the last match loses its leftover markers.
RemainingPlainText_DropMarkers(raw, current_position_raw) ==
    Keep(Slice(raw, current_position_raw, Len(raw)), PlainTokens)

\* remaining_plain_text = raw_content[current_position_raw:]
RemainingPlainText(raw, current_position_raw) ==
    Slice(raw, current_position_raw, Len(raw))

\* Mutant: a child is recorded in the coordinates of the enclosing text.
ChildTags_OuterCoordinates(child_tags, tag_start_index) ==
    [k \in 1..Len(child_tags) |->
        [child_tags[k] EXCEPT
            !.position = Position(@.start_index + tag_start_index,
                                  @.end_index + tag_start_index)]]

\* children=child_tags
ChildTags(child_tags, tag_start_index) == child_tags

\* The while loop of parse_text_and_extract_inner_tags, from the state
\* (current_position_raw, current_position_cleaned, cleaned_text_content,
\* inner_tags) to the returned pair.
RECURSIVE ParseLoop(_, _, _, _, _)
ParseLoop(raw, current_position_raw, current_position_cleaned, cleaned_text_content, inner_tags) ==
    IF ~(current_position_raw < Len(raw))
    THEN [cleaned_text_content |-> cleaned_text_content, inner_tags |-> inner_tags]
    ELSE Only({
        IF k = 0
        THEN [cleaned_text_content |->
                  cleaned_text_content \o RemainingPlainText(raw, current_position_raw),
              inner_tags |-> inner_tags]
        ELSE Only({
            LET text_before_match ==
                    Slice(raw, current_position_raw, earliest_match.start)
                tag_start_index == current_position_cleaned + Len(text_before_match)
                position_after == tag_start_index + Len(inner.cleaned_text_content)
                new_tag ==
                    InnerTag(TAG_DEFINITIONS[k].name,
                             TAG_DEFINITIONS[k].metadata,
                             Position(tag_start_index, TagEndIndex(position_after)),
                             ChildTags(inner.inner_tags, tag_start_index))
            IN  ParseLoop(raw, earliest_match.end, position_after,
                          cleaned_text_content \o text_before_match
                              \o inner.cleaned_text_content,
                          Append(inner_tags, new_tag)) :
            <<earliest_match, inner>> \in {
                <<match, ParseLoop(IF TAG_DEFINITIONS[k].has_content
                                   THEN match.content ELSE <<>>,
                                   0, 0, <<>>, <<>>)>> :
                match \in {Search(TAG_DEFINITIONS[k], raw, current_position_raw)} } }) :
        k \in {EarliestMatch(raw, current_position_raw)} })

parse_text_and_extract_inner_tags(raw) == ParseLoop(raw, 0, 0, <<>>, <<>>)

ParseInit ==
    /\ raw_content \in SeqsUpTo(RawTokens, MaxRawLen)
    /\ parse_pc = "call"
    /\ parse_result = <<>>
    /\ call_stack = <<>>
    /\ SectionsIdle /\ SpansIdle /\ FigIdle /\ ListIdle /\ RefsIdle /\ MainIdle /\ WalkIdle /\ TxIdle

ParseCall ==
    /\ parse_pc = "call"
    /\ parse_result' = parse_text_and_extract_inner_tags(raw_content)
    /\ parse_pc' = "return"
    /\ UNCHANGED <<raw_content, call_stack, sectionVars, spansVars, figVars, listVars, refVars, mainVars, walkVars, txVars>>

ParseNext == ParseCall

SpecParse == ParseInit /\ [][ParseNext]_vars

(***************************************************************************)
(* The sentence segmenter (nltk's sent_tokenize in import_pipeline.py,     *)
(* tokenize_sentences in convert_html_to_lumi.py), a collaborator.  It     *)
(* returns the sentences as strings, in order.  As the tests show, the     *)
(* first sentence keeps leading whitespace ("<p>.. [[..]] Text after.</p>" *)
(* gives " Text after."), whitespace after the last sentence is dropped    *)
(* ("Text before. " gives "Text before."), and the whitespace after a      *)
(* sentence-ending period belongs to no sentence.  Whether a period        *)
(* followed by whitespace ends a sentence is the segmenter's decision:     *)
(* `declined` holds the candidate periods at which it does not break.      *)
(***************************************************************************)
TextTokens == {"a", ".", " "}

IsSpace(c) == c = " "

\* not text.strip()
IsBlank(text) == \A i \in 1..Len(text) : IsSpace(text[i])

\* len(text.rstrip())
RStripLen(text) ==
    LET ends == {n \in 0..Len(text) : \A i \in (n + 1)..Len(text) : IsSpace(text[i])}
    IN  CHOOSE n \in ends : \A m \in ends : n <= m

\* 0-based positions of the periods after which a sentence may end.
BreakCandidates(text) ==
    {i \in 0..(RStripLen(text) - 2) : text[i + 1] = "." /\ IsSpace(text[i + 2])}

\* The sentences' [start, end) intervals from 0-based position `from` on.
RECURSIVE SentenceBoundsFrom(_, _, _)
SentenceBoundsFrom(text, from, breaks) ==
    LET later == {b \in breaks : b >= from}
    IN  IF later = {}
        THEN << [start |-> from, end |-> RStripLen(text)] >>
        ELSE LET b == CHOOSE x \in later : \A y \in later : x <= y
                 next == CHOOSE n \in (b + 1)..Len(text) :
                             /\ ~IsSpace(text[n + 1])
                             /\ \A m \in (b + 1)..(n - 1) : IsSpace(text[m + 1])
             IN  << [start |-> from, end |-> b + 1] >>
                     \o SentenceBoundsFrom(text, next, breaks)

SentenceBounds(text, declined) ==
    IF RStripLen(text) = 0 THEN <<>>
    ELSE SentenceBoundsFrom(text, 0, BreakCandidates(text) \ declined)

\* tokenize.sent_tokenize(cleaned_text)
sent_tokenize(text, declined) ==
    LET Texts(bounds) ==
            [n \in 1..Len(bounds) |-> Slice(text, bounds[n].start, bounds[n].end)]
    IN  Texts(SentenceBounds(text, declined))

(***************************************************************************)
(* create_lumi_spans.                                                      *)
(***************************************************************************)
LumiSpan(id, text, inner_tags) ==
    [id |-> id, text |-> text, inner_tags |-> inner_tags]

\* Mutant: the sentence has to begin at the search offset itself.
Find_AtOffsetOnly(text, sub, offset) ==
    IF offset + Len(sub) <= Len(text) /\ Slice(text, offset, offset + Len(sub)) = sub
    THEN offset ELSE -1

\* cleaned_text.find(sentence_text, cleaned_text_search_offset)
Find(text, sub, offset) ==
    LET hits == {i \in offset..(Len(text) - Len(sub)) :
                    Slice(text, i, i + Len(sub)) = sub}
    IN  IF hits = {} THEN -1
        ELSE CHOOSE i \in hits : \A j \in hits : i <= j

\* Mutant: annotations that only touch the sentence's boundary are left out.
Overlaps_Strict(tag_start_absolute, tag_end_absolute, sentence_start_in_cleaned, sentence_end_in_cleaned) ==
    /\ tag_start_absolute < sentence_end_in_cleaned
    /\ tag_end_absolute > sentence_start_in_cleaned

\* tag_start_absolute <= sentence_end_in_cleaned
\*     and tag_end_absolute >= sentence_start_in_cleaned
Overlaps(tag_start_absolute, tag_end_absolute, sentence_start_in_cleaned, sentence_end_in_cleaned) ==
    /\ tag_start_absolute <= sentence_end_in_cleaned
    /\ tag_end_absolute >= sentence_start_in_cleaned

\* Mutant: the start is not clamped to the sentence.
TagStartRelative_Unclamped(tag_start_absolute, sentence_start_in_cleaned) ==
    tag_start_absolute - sentence_start_in_cleaned

\* tag_start_relative = max(0, tag_start_absolute - sentence_start_in_cleaned)
TagStartRelative(tag_start_absolute, sentence_start_in_cleaned) ==
    Max(0, tag_start_absolute - sentence_start_in_cleaned)

\* tag_end_relative = min(len(sentence_text),
\*                        tag_end_absolute - sentence_start_in_cleaned)
TagEndRelative(tag_end_absolute, sentence_start_in_cleaned, sentence_len) ==
    Min(sentence_len, tag_end_absolute - sentence_start_in_cleaned)

\* inner_tag.metadata.copy(): a new map with the same entries.
CopyOf(metadata) == metadata

\* The inner for loop: the copies attached to one sentence.
RECURSIVE TagsRelativeToSentence(_, _, _, _, _)
TagsRelativeToSentence(tags, k, sentence_start_in_cleaned, sentence_end_in_cleaned, sentence_len) ==
    IF k > Len(tags) THEN <<>>
    ELSE
    LET inner_tag == tags[k]
        tag_start_absolute == inner_tag.position.start_index
        tag_end_absolute == inner_tag.position.end_index
        tag_start_relative ==
            TagStartRelative(tag_start_absolute, sentence_start_in_cleaned)
        tag_end_relative ==
            TagEndRelative(tag_end_absolute, sentence_start_in_cleaned, sentence_len)
        rest == TagsRelativeToSentence(tags, k + 1, sentence_start_in_cleaned,
                                       sentence_end_in_cleaned, sentence_len)
    IN  IF /\ Overlaps(tag_start_absolute, tag_end_absolute,
                       sentence_start_in_cleaned, sentence_end_in_cleaned)
           /\ tag_start_relative <= tag_end_relative
           /\ tag_end_relative <= sentence_len
        THEN << InnerTag(inner_tag.tag_name, CopyOf(inner_tag.metadata),
                         Position(tag_start_relative, tag_end_relative),
                         inner_tag.children) >> \o rest
        ELSE rest

\* The for loop over the sentences; `calls` counts get_unique_id() calls and
\* a new object's id is the number of the call that made it.
RECURSIVE SentenceLoop(_, _, _, _, _, _, _)
SentenceLoop(text, tags, sentences, n, cleaned_text_search_offset, spans, calls) ==
    IF n > Len(sentences) THEN spans
    ELSE
    LET sentence_text == sentences[n]
        sentence_start_in_cleaned ==
            Find(text, sentence_text, cleaned_text_search_offset)
        sentence_end_in_cleaned == sentence_start_in_cleaned + Len(sentence_text)
    IN  IF sentence_start_in_cleaned = -1
        THEN SentenceLoop(text, tags, sentences, n + 1,
                          cleaned_text_search_offset, spans, calls)
        ELSE SentenceLoop(text, tags, sentences, n + 1, sentence_end_in_cleaned,
                 Append(spans,
                        LumiSpan(calls + 1, sentence_text,
                                 TagsRelativeToSentence(tags, 1,
                                     sentence_start_in_cleaned,
                                     sentence_end_in_cleaned, Len(sentence_text)))),
                 calls + 1)

\* Mutant: skip_tokenize is not looked at.
create_lumi_spans_IgnoreSkip(text, tags, skip, declined, calls) ==
    IF IsBlank(text) /\ tags = <<>> THEN <<>>
    ELSE
    LET Spans(sentences) ==
            IF sentences = <<>>
            THEN << LumiSpan(calls + 1, text, tags) >>
            ELSE SentenceLoop(text, tags, sentences, 1, 0, <<>>, calls)
    IN  Spans(sent_tokenize(text, declined))

create_lumi_spans(text, tags, skip, declined, calls) ==
    IF IsBlank(text) /\ tags = <<>> THEN <<>>
    ELSE
    LET Spans(sentences) ==
            IF sentences = <<>> \/ skip
            THEN IF text # <<>> \/ tags # <<>>
                 THEN << LumiSpan(calls + 1, text, tags) >>
                 ELSE <<>>
            ELSE SentenceLoop(text, tags, sentences, 1, 0, <<>>, calls)
    IN  Spans(IF ~skip THEN sent_tokenize(text, declined) ELSE <<>>)

\* The annotation lists the parser can hand over for a text of length len: up
\* to MaxTags concept annotations with different ids, one after the other,
\* each with a child.
ChildTag == InnerTag("b", "none", Position(0, 0), <<>>)

Intervals(len) == UNION {{Position(a, b) : b \in a..len} : a \in 0..len}

InputTags(len) ==
    UNION {
        {[k \in 1..n |-> InnerTag("concept", k, f[k], <<ChildTag>>)] :
            f \in {g \in [1..n -> Intervals(len)] :
                      \A k \in 1..(n - 1) : g[k].end_index <= g[k + 1].start_index}}
        : n \in 0..MaxTags}

SpansInit ==
    /\ cleaned_text \in SeqsUpTo(TextTokens, MaxTextLen)
    /\ all_inner_tags \in InputTags(Len(cleaned_text))
    /\ skip_tokenize \in BOOLEAN
    /\ no_break \in IF skip_tokenize THEN {{}}
                    ELSE SUBSET BreakCandidates(cleaned_text)
    /\ spans_pc = "call"
    /\ lumi_spans = <<>>
    /\ SectionsIdle /\ ParseIdle /\ FigIdle /\ ListIdle /\ RefsIdle /\ MainIdle /\ WalkIdle /\ TxIdle

SpansCall ==
    /\ spans_pc = "call"
    /\ lumi_spans' = create_lumi_spans(cleaned_text, all_inner_tags,
                                       skip_tokenize, no_break, 0)
    /\ spans_pc' = "return"
    /\ UNCHANGED <<cleaned_text, all_inner_tags, skip_tokenize, no_break,
                   sectionVars, parseVars, figVars, listVars, refVars, mainVars, walkVars, txVars>>

SpansNext == SpansCall

SpecSpans == SpansInit /\ [][SpansNext]_vars

(***************************************************************************)
(* preprocess_and_replace_figures and _parse_html_block_for_lumi_contents. *)
(*                                                                         *)
(* The text is a sequence of items: single characters, block markers (each *)
(* a full match of one of the three patterns of shared/import_tags.py,     *)
(* with the groups the replacers read) and placeholder tokens.             *)
(***************************************************************************)
Char(c) == [kind |-> "char", c |-> c]

\* IMAGE_AND_CAPTION_PATTERN: groups image_path, image_caption_text.
ImageMarker(image_path, image_caption_text) ==
    [kind |-> "image", image_path |-> image_path,
     image_caption_text |-> image_caption_text]

\* HTML_FIGURE_PATTERN: groups html_content, html_caption_text.
HtmlFigureMarker(html_content, html_caption_text) ==
    [kind |-> "html", html_content |-> html_content,
     html_caption_text |-> html_caption_text]

\* FIGURE_PATTERN: groups figure_content, main_caption_text.
FigureMarker(figure_content, main_caption_text) ==
    [kind |-> "figure", figure_content |-> figure_content,
     main_caption_text |-> main_caption_text]

\* f"{PLACEHOLDER_PREFIX}{uid}{PLACEHOLDER_SUFFIX}"
_get_placeholder_id(uid) == [kind |-> "placeholder", id |-> uid]

Chars == {Char("a"), Char(" ")}

\* Caption groups: absent, whitespace only, or a word.
Captions == {<<>>, <<" ">>, <<"a">>}

ImageMarkers == {ImageMarker("fig1.png", caption) : caption \in Captions}

HtmlFigureMarkers ==
    { HtmlFigureMarker(<<Char("a")>>, <<>>),
      HtmlFigureMarker(<<Char(" "), Char("a")>>, <<"<b>", "a", "</b>">>),
      HtmlFigureMarker(<<ImageMarker("fig1.png", <<>>)>>, <<"a">>) }

FigureMarkers ==
    { FigureMarker(<<>>, <<>>),
      FigureMarker(<<ImageMarker("fig1.png", <<>>)>>, <<"a">>),
      FigureMarker(<<ImageMarker("fig1.png", <<"a">>), Char(" "),
                     ImageMarker("fig2.png", <<>>)>>, <<>>) }

\* A token the raw text holds before any replacement; get_unique_id()
\* never returns its id.
StrayPlaceholders == {_get_placeholder_id(0)}

RawItems == Chars \cup ImageMarkers \cup HtmlFigureMarkers \cup FigureMarkers
                \cup StrayPlaceholders

\* s.strip(), for a sequence whose whitespace element is space.
Strip(s, space) ==
    LET inked == {i \in 1..Len(s) : s[i] # space}
    IN  IF inked = {} THEN <<>>
        ELSE SubSeq(s, CHOOSE i \in inked : \A j \in inked : i <= j,
                       CHOOSE i \in inked : \A j \in inked : i >= j)

\* placeholder_map[placeholder_id] = content
Put(map, key, value) ==
    [k \in (DOMAIN map) \cup {key} |-> IF k = key THEN value ELSE map[k]]

\* The span of a caption, or none (the empty sequence), and the number of
\* get_unique_id() calls made so far.
_create_caption_span(caption_text, calls) ==
    IF caption_text = <<>> THEN [caption |-> <<>>, calls |-> calls]
    ELSE Only({
        [caption |-> IF caption_spans # <<>> THEN << caption_spans[1] >> ELSE <<>>,
         calls |-> calls + Len(caption_spans)] :
        caption_spans \in {
            create_lumi_spans(parsed.cleaned_text_content, parsed.inner_tags,
                              TRUE, {}, calls) :
            parsed \in {parse_text_and_extract_inner_tags(caption_text)} } })

ImageContent(latex_path, storage_path, caption) ==
    [latex_path |-> latex_path, storage_path |-> storage_path,
     alt_text |-> "", caption |-> caption, width |-> 0, height |-> 0]

_create_image_content(image_path, caption_text, calls) ==
    Only({
        [image_content |->
             ImageContent(image_path, <<"file_id", "images", image_path>>,
                          caption_span.caption),
         calls |-> caption_span.calls] :
        caption_span \in {_create_caption_span(caption_text, calls)} })

\* Mutant: the token goes into the text but nothing into the map.
image_replacer_TokenOnly(match, map, calls) ==
    [placeholder_id |-> _get_placeholder_id(calls + 1), map |-> map,
     calls |-> calls + 1]

\* Mutant: the token and the Content each get an id of their own.
image_replacer_TwoRequests(match, map, calls) ==
    Only({
        [placeholder_id |-> _get_placeholder_id(calls + 1),
         map |-> Put(map, _get_placeholder_id(calls + 1),
                     [id |-> calls + 2, image_content |-> made.image_content]),
         calls |-> made.calls] :
        made \in {_create_image_content(match.image_path,
                      Strip(match.image_caption_text, " "), calls + 2)} })

image_replacer(match, map, calls) ==
    LET id == calls + 1
        placeholder_id == _get_placeholder_id(id)
    IN  Only({
            [placeholder_id |-> placeholder_id,
             map |-> Put(map, placeholder_id,
                         [id |-> id, image_content |-> made.image_content]),
             calls |-> made.calls] :
            made \in {_create_image_content(match.image_path,
                          Strip(match.image_caption_text, " "), id)} })

\* for img_match in IMAGE_AND_CAPTION_PATTERN.finditer(figure_content_raw)
RECURSIVE SubImages(_, _, _, _)
SubImages(figure_content_raw, k, sub_images, calls) ==
    IF k > Len(figure_content_raw) THEN [sub_images |-> sub_images, calls |-> calls]
    ELSE IF figure_content_raw[k].kind = "image"
    THEN Only({
             SubImages(figure_content_raw, k + 1,
                       Append(sub_images, made.image_content), made.calls) :
             made \in {_create_image_content(
                           figure_content_raw[k].image_path,
                           Strip(figure_content_raw[k].image_caption_text, " "),
                           calls)} })
    ELSE SubImages(figure_content_raw, k + 1, sub_images, calls)

figure_replacer(match, map, calls) ==
    LET id == calls + 1
        placeholder_id == _get_placeholder_id(id)
    IN  Only({
            [placeholder_id |-> placeholder_id,
             map |-> Put(map, placeholder_id,
                         [id |-> id,
                          figure_content |-> [images |-> made.sub_images,
                                              caption |-> made.caption]]),
             calls |-> made.calls] :
            made \in {
                [caption |-> main_caption_span.caption,
                 sub_images |-> subs.sub_images, calls |-> subs.calls] :
                <<main_caption_span, subs>> \in {
                    <<main, SubImages(match.figure_content, 1, <<>>, main.calls)>> :
                    main \in {_create_caption_span(
                                  Strip(match.main_caption_text, " "), id)} } } })

html_figure_replacer(match, map, calls) ==
    LET id == calls + 1
        placeholder_id == _get_placeholder_id(id)
    IN  Only({
            [placeholder_id |-> placeholder_id,
             map |-> Put(map, placeholder_id,
                         [id |-> id,
                          html_figure_content |->
                              [html |-> Strip(match.html_content, Char(" ")),
                               caption |-> caption_span.caption]]),
             calls |-> caption_span.calls] :
            caption_span \in {_create_caption_span(
                                  Strip(match.html_caption_text, " "), id)} })

Replacer(kind, match, map, calls) ==
    CASE kind = "figure" -> figure_replacer(match, map, calls)
      [] kind = "html"   -> html_figure_replacer(match, map, calls)
      [] kind = "image"  -> image_replacer(match, map, calls)

\* The body of a container marker, and the marker with another body.
Body(item) ==
    IF item.kind = "figure" THEN item.figure_content ELSE item.html_content

WithBody(item, body) ==
    IF item.kind = "figure" THEN [item EXCEPT !.figure_content = body]
    ELSE [item EXCEPT !.html_content = body]

\* pattern.sub(replacer, text): every match, from left to right, gives way
\* to what the replacer returns for it.  The text is one string, so a match
\* is found in the body of a container still in the text as well.
RECURSIVE Sub(_, _, _, _, _)
Sub(kind, text, k, map, calls) ==
    IF k > Len(text) THEN [text |-> text, map |-> map, calls |-> calls]
    ELSE IF text[k].kind = kind
    THEN Only({
             Sub(kind, [text EXCEPT ![k] = replaced.placeholder_id], k + 1,
                 replaced.map, replaced.calls) :
             replaced \in {Replacer(kind, text[k], map, calls)} })
    ELSE IF text[k].kind \in {"figure", "html"}
    THEN Only({
             Sub(kind, [text EXCEPT ![k] = WithBody(text[k], inner.text)], k + 1,
                 inner.map, inner.calls) :
             inner \in {Sub(kind, Body(text[k]), 1, map, calls)} })
    ELSE Sub(kind, text, k + 1, map, calls)

\* Mutant: the bare image pattern is replaced first.
preprocess_and_replace_figures_ImagesFirst(raw, map, calls) ==
    Only({
        Sub("html", figures.text, 1, figures.map, figures.calls) :
        figures \in {
            Sub("figure", images.text, 1, images.map, images.calls) :
            images \in {Sub("image", raw, 1, map, calls)} } })

preprocess_and_replace_figures(raw, map, calls) ==
    Only({
        Sub("image", html_figures.text, 1, html_figures.map, html_figures.calls) :
        html_figures \in {
            Sub("html", figures.text, 1, figures.map, figures.calls) :
            figures \in {Sub("figure", raw, 1, map, calls)} } })

\* The characters an item stands for in the text given to the inline parser.
ItemText(item) ==
    IF item.kind = "char" THEN item.c ELSE "[[LUMI_PLACEHOLDER_]]"

BlockText(items) == [i \in 1..Len(items) |-> ItemText(items[i])]

\* The TextContent of pre_text or post_text, appended if there is any.
AddTextContent(text, original_tag_name, contents, calls) ==
    IF IsBlank(BlockText(text))
    THEN [lumi_contents |-> contents, calls |-> calls]
    ELSE Only({
        IF spans # <<>>
        THEN [lumi_contents |->
                  Append(contents,
                         [id |-> calls + Len(spans) + 1,
                          text_content |-> [tag_name |-> original_tag_name,
                                            spans |-> spans]]),
              calls |-> calls + Len(spans) + 1]
        ELSE [lumi_contents |-> contents, calls |-> calls] :
        spans \in {
            create_lumi_spans(parsed.cleaned_text_content, parsed.inner_tags,
                              FALSE, {}, calls) :
            parsed \in {parse_text_and_extract_inner_tags(BlockText(text))} } })

\* Mutant: the text before the next placeholder begins at the previous one.
CurrentPosAfter_MatchStart(match_start, match_end) == match_start

\* current_pos = match.end()
CurrentPosAfter(match_start, match_end) == match_end

\* Mutant: a token without an entry is kept as the text of a TextContent.
PlaceholderContent_Literal(map, placeholder_id) ==
    IF placeholder_id \in DOMAIN map THEN <<map[placeholder_id]>>
    ELSE << [id |-> 0,
             text_content |->
                 [tag_name |-> "p",
                  spans |-> <<LumiSpan(0, <<ItemText(placeholder_id)>>, <<>>)>>]] >>

\* if placeholder_id in placeholder_map:
\*     lumi_contents.append(placeholder_map[placeholder_id])
\* as the list of what is appended.
PlaceholderContent(map, placeholder_id) ==
    IF placeholder_id \in DOMAIN map THEN <<map[placeholder_id]>> ELSE <<>>

\* for match in placeholder_pattern.finditer(text), then the remaining text.
RECURSIVE BlockLoop(_, _, _, _, _, _, _)
BlockLoop(text, original_tag_name, map, scan_from, current_pos, contents, calls) ==
    LET later == {i \in scan_from..(Len(text) - 1) : text[i + 1].kind = "placeholder"}
        match_start == CHOOSE i \in later : \A j \in later : i <= j
        match_end == match_start + 1
        placeholder_id == text[match_start + 1]
        to == IF later = {} THEN Len(text) ELSE match_start
    IN  Only({
            IF later = {} THEN before
            ELSE BlockLoop(text, original_tag_name, map, match_end,
                           CurrentPosAfter(match_start, match_end),
                           before.lumi_contents
                               \o PlaceholderContent(map, placeholder_id),
                           before.calls) :
            before \in {
                IF current_pos < to
                THEN AddTextContent(Slice(text, current_pos, to),
                                    original_tag_name, contents, calls)
                ELSE [lumi_contents |-> contents, calls |-> calls]} })

_parse_html_block_for_lumi_contents(text, original_tag_name, map, calls) ==
    BlockLoop(text, original_tag_name, map, 0, 0, <<>>, calls)

FigInit ==
    /\ raw_markdown_string \in SeqsUpTo(RawItems, MaxItems)
    /\ placeholder_map = <<>>
    /\ processed_html = <<>>
    /\ lumi_contents = <<>>
    /\ id_calls = 0
    /\ fig_pc = "call"
    /\ SectionsIdle /\ ParseIdle /\ SpansIdle /\ ListIdle /\ RefsIdle /\ MainIdle /\ WalkIdle /\ TxIdle

\* convert_model_output_to_lumi_doc: the placeholder extraction.
Preprocess ==
    /\ fig_pc = "call"
    /\ LET done == preprocess_and_replace_figures(raw_markdown_string,
                                                  placeholder_map, id_calls)
       IN  /\ processed_html' = done.text
           /\ placeholder_map' = done.map
           /\ id_calls' = done.calls
    /\ fig_pc' = "preprocessed"
    /\ UNCHANGED <<raw_markdown_string, lumi_contents,
                   sectionVars, parseVars, spansVars, listVars, refVars, mainVars, walkVars, txVars>>

\* The processed text as the contents of one paragraph: the call returns
\* None for a blank text and the list of contents otherwise.
ParseBlock ==
    /\ fig_pc = "preprocessed"
    /\ IF IsBlank(BlockText(processed_html))
       THEN /\ fig_pc' = "none"
            /\ UNCHANGED <<lumi_contents, id_calls>>
       ELSE LET done == _parse_html_block_for_lumi_contents(
                            processed_html, "p", placeholder_map, id_calls)
            IN  /\ lumi_contents' = done.lumi_contents
                /\ id_calls' = done.calls
                /\ fig_pc' = "return"
    /\ UNCHANGED <<raw_markdown_string, placeholder_map, processed_html,
                   sectionVars, parseVars, spansVars, listVars, refVars, mainVars, walkVars, txVars>>

FigNext == Preprocess \/ ParseBlock

SpecFig == FigInit /\ [][FigNext]_vars

(***************************************************************************)
(* _get_list_content_from_tag.                                             *)
(*                                                                         *)
(* A tag is a bs4 node: a string (its name is None, here "#text"), a list  *)
(* tag with its direct li children, or a li tag with its contents.         *)
(***************************************************************************)
ORDERED_LIST_TAG == "ol"

UNORDERED_LIST_TAG == "ul"

DEFAULT_LIST_TAGS == {ORDERED_LIST_TAG, UNORDERED_LIST_TAG}

TextNode(text) == [name |-> "#text", text |-> text]

LiTag(contents) == [name |-> "li", contents |-> contents]

\* items: tag.find_all("li", recursive=False)
ListTag(name, items) == [name |-> name, items |-> items]

\* child_node.get_text(): all the text below the node, in document order.
RECURSIVE get_text(_)
get_text(node) ==
    LET kids == IF node.name = "li" THEN node.contents ELSE node.items
        Texts[k \in 0..Len(kids)] ==
            IF k = 0 THEN <<>> ELSE Texts[k - 1] \o get_text(kids[k])
    IN  IF node.name = "#text" THEN node.text ELSE Texts[Len(kids)]

\* Mutant: an item without spans gets one span of no text.
ListItem_OneEmptySpan(spans, subListContent) ==
    [spans |-> IF spans = <<>> THEN << [id |-> 0, text |-> <<>>, inner_tags |-> <<>>] >>
               ELSE spans,
     subListContent |-> subListContent]

ListItem(spans, subListContent) ==
    [spans |-> spans, subListContent |-> subListContent]

RECURSIVE _get_list_content_from_tag(_, _)
RECURSIVE ChildLoop(_, _, _, _, _)
RECURSIVE ItemLoop(_, _, _, _)

\* for child_node in li_tag.contents; subListContent is None (the empty
\* sequence) or the one ListContent kept.
ChildLoop(contents, k, raw_li_content_html, subListContent, calls) ==
    IF k > Len(contents)
    THEN [raw_li_content_html |-> raw_li_content_html,
          subListContent |-> subListContent, calls |-> calls]
    ELSE IF contents[k].name \in DEFAULT_LIST_TAGS /\ subListContent = <<>>
    THEN Only({
             ChildLoop(contents, k + 1, raw_li_content_html,
                       IF nested.content # <<>>
                       THEN << nested.content[1].list_content >>
                       ELSE subListContent,
                       nested.calls) :
             nested \in {_get_list_content_from_tag(contents[k], calls)} })
    ELSE ChildLoop(contents, k + 1,
                   raw_li_content_html \o get_text(contents[k]),
                   subListContent, calls)

\* for li_tag in tag.find_all("li", recursive=False)
ItemLoop(items, k, list_items_processed, calls) ==
    IF k > Len(items)
    THEN [list_items |-> list_items_processed, calls |-> calls]
    ELSE Only({
        ItemLoop(items, k + 1,
                 Append(list_items_processed,
                        ListItem(current_li_spans, walked.subListContent)),
                 walked.calls + Len(current_li_spans)) :
        <<walked, current_li_spans>> \in {
            <<done,
              IF ~IsBlank(parsed.cleaned_text_content) \/ parsed.inner_tags # <<>>
              THEN create_lumi_spans(parsed.cleaned_text_content,
                                     parsed.inner_tags, FALSE, {}, done.calls)
              ELSE <<>> >> :
            <<done, parsed>> \in {
                <<walk, parse_text_and_extract_inner_tags(walk.raw_li_content_html)>> :
                walk \in {ChildLoop(items[k].contents, 1, <<>>, <<>>, calls)} } } })

\* The LumiContent returned (none: the empty sequence), and the number of
\* get_unique_id() calls made so far.
_get_list_content_from_tag(list_tag, calls) ==
    IF list_tag.name \in DEFAULT_LIST_TAGS
    THEN Only({
             [content |->
                  << [id |-> done.calls + 1,
                      list_content |->
                          [is_ordered |-> list_tag.name = ORDERED_LIST_TAG,
                           list_items |-> done.list_items]] >>,
              calls |-> done.calls + 1] :
             done \in {ItemLoop(list_tag.items, 1, <<>>, calls)} })
    ELSE [content |-> <<>>, calls |-> calls]

TextNodes == {TextNode(<<"a">>), TextNode(<<" ">>), TextNode(<<"[z]">>)}

NestedX == ListTag(UNORDERED_LIST_TAG, << LiTag(<< TextNode(<<"x">>) >>) >>)

NestedDeep ==
    ListTag(ORDERED_LIST_TAG, << LiTag(<< TextNode(<<"a">>), NestedX >>) >>)

ChildNodes == TextNodes \cup {NestedX, NestedDeep}

LiTags == {LiTag(contents) : contents \in SeqsUpTo(ChildNodes, MaxChildren)}

ListInit ==
    /\ \E name \in DEFAULT_LIST_TAGS, items \in SeqsUpTo(LiTags, MaxListItems) :
           tag = ListTag(name, items)
    /\ list_pc = "call"
    /\ list_content = <<>>
    /\ SectionsIdle /\ ParseIdle /\ SpansIdle /\ FigIdle /\ RefsIdle /\ MainIdle /\ WalkIdle /\ TxIdle

ListCall ==
    /\ list_pc = "call"
    /\ list_content' = _get_list_content_from_tag(tag, 0).content
    /\ list_pc' = "return"
    /\ UNCHANGED <<tag, sectionVars, parseVars, spansVars, figVars, refVars, mainVars, walkVars, txVars>>

ListNext == ListCall

SpecList == ListInit /\ [][ListNext]_vars

(***************************************************************************)
(* What a returned (cleaned text, annotation list) pair says about the raw *)
(* text it came from.  These read the result only; they are the yardstick  *)
(* of the claims on the parser, not part of it.                            *)
(***************************************************************************)
TagDefinitionOf(tag_name) ==
    CHOOSE d \in Range(TAG_DEFINITIONS) : d.name = tag_name

\* Siblings follow each other inside a text of length len, children inside
\* their parent's own text.
RECURSIVE TagsInRange(_, _, _, _)
TagsInRange(len, tags, k, cursor) ==
    IF k > Len(tags) THEN TRUE
    ELSE /\ cursor <= tags[k].position.start_index
         /\ tags[k].position.start_index <= tags[k].position.end_index
         /\ tags[k].position.end_index <= len
         /\ TagsInRange(tags[k].position.end_index - tags[k].position.start_index,
                        tags[k].children, 1, 0)
         /\ TagsInRange(len, tags, k + 1, tags[k].position.end_index)

\* The raw text that results from putting each annotation's markers back
\* around the half-open interval it records, children relative to the start
\* of their parent's text.
RECURSIVE Unparse(_, _, _, _)
Unparse(text, tags, k, cursor) ==
    IF k > Len(tags) THEN Slice(text, cursor, Len(text))
    ELSE LET t == tags[k]
             d == TagDefinitionOf(t.tag_name)
             inner == Slice(text, t.position.start_index, t.position.end_index)
         IN  Slice(text, cursor, t.position.start_index)
                 \o <<d.open>>
                 \o (IF d.has_content
                     THEN Unparse(inner, t.children, 1, 0) \o <<d.close>>
                     ELSE <<>>)
                 \o Unparse(text, tags, k + 1, t.position.end_index)

\* Every annotation of a list, at every depth.
RECURSIVE AllTags(_)
AllTags(tags) ==
    UNION {{tags[k]} \cup AllTags(tags[k].children) : k \in 1..Len(tags)}

RECURSIVE NumMarkers(_, _)
NumMarkers(tags, k) ==
    IF k > Len(tags) THEN 0
    ELSE (IF TagDefinitionOf(tags[k].tag_name).has_content THEN 2 ELSE 1)
             + NumMarkers(tags[k].children, 1) + NumMarkers(tags, k + 1)

\* The 0-based raw positions of the markers the annotations stand for.
RECURSIVE ConsumedPositions(_, _, _, _)
ConsumedPositions(tags, k, cursor, raw_pos) ==
    IF k > Len(tags) THEN {}
    ELSE LET t == tags[k]
             d == TagDefinitionOf(t.tag_name)
             open_pos == raw_pos + (t.position.start_index - cursor)
             close_pos == open_pos + 1
                            + (t.position.end_index - t.position.start_index)
                            + NumMarkers(t.children, 1)
         IN  IF d.has_content
             THEN {open_pos, close_pos}
                      \cup ConsumedPositions(t.children, 1, 0, open_pos + 1)
                      \cup ConsumedPositions(tags, k + 1, t.position.end_index,
                                             close_pos + 1)
             ELSE {open_pos}
                      \cup ConsumedPositions(tags, k + 1, t.position.end_index,
                                             open_pos + 1)

\* s without the tokens at the 0-based positions of the set gone.
Without(s, gone) ==
    LET kept == {i \in 1..Len(s) : (i - 1) \notin gone}
    IN  [n \in 1..Cardinality(kept) |->
            s[CHOOSE i \in kept : Cardinality({j \in kept : j < i}) = n - 1]]

\* A start marker with no end marker after it, or an end marker with no
\* start marker before it, at 0-based position i of raw.
UnmatchedMarker(raw, i) ==
    \E k \in 1..Len(TAG_DEFINITIONS) :
        LET d == TAG_DEFINITIONS[k]
            none_after(tok) == \A j \in (i + 1)..(Len(raw) - 1) : raw[j + 1] # tok
            none_before(tok) == \A j \in 0..(i - 1) : raw[j + 1] # tok
        IN  /\ d.has_content
            /\ IF d.open = d.close
               THEN raw[i + 1] = d.open /\ none_after(d.open) /\ none_before(d.open)
               ELSE \/ raw[i + 1] = d.open /\ none_after(d.close)
                    \/ raw[i + 1] = d.close /\ none_before(d.open)

Plain(s) == \A i \in 1..Len(s) : s[i] \in PlainTokens

(***************************************************************************)
(* What a create_lumi_spans call returned, seen from outside.              *)
(***************************************************************************)
SpansReturned == spans_pc = "return"

\* The call took the loop over the sentences.
SplitPath ==
    /\ SpansReturned
    /\ ~skip_tokenize
    /\ SentenceBounds(cleaned_text, no_break) # <<>>

WithinText(inner_tag, text) ==
    /\ 0 <= inner_tag.position.start_index
    /\ inner_tag.position.start_index <= inner_tag.position.end_index
    /\ inner_tag.position.end_index <= Len(text)

\* texts[n..] can be laid over text[pos..] in order, with nothing but
\* whitespace between one text and the next and, after the last one, nothing
\* at all (or, if trailing is TRUE, nothing but whitespace).
RECURSIVE Reconstructs(_, _, _, _, _)
Reconstructs(text, pos, texts, n, trailing) ==
    IF n > Len(texts)
    THEN IF trailing THEN IsBlank(Slice(text, pos, Len(text)))
         ELSE pos = Len(text)
    ELSE \E gap \in 0..(Len(text) - pos - Len(texts[n])) :
            /\ n = 1 => gap = 0
            /\ IsBlank(Slice(text, pos, pos + gap))
            /\ Slice(text, pos + gap, pos + gap + Len(texts[n])) = texts[n]
            /\ Reconstructs(text, pos + gap + Len(texts[n]), texts, n + 1, trailing)

SpanTexts == [n \in 1..Len(lumi_spans) |-> lumi_spans[n].text]

(***************************************************************************)
(* C2: if every annotation given to create_lumi_spans lies within the      *)
(* cleaned text (0 <= start <= end <= len(cleaned_text)), every annotation *)
(* of every returned span lies within that span's text, on the split path  *)
(* and on the no-split path.                                               *)
(***************************************************************************)
C2_SpanAnnotationsWithinSpanText ==
    (/\ SpansReturned
     /\ \A k \in 1..Len(all_inner_tags) : WithinText(all_inner_tags[k], cleaned_text))
    => \A n \in 1..Len(lumi_spans) :
           \A j \in 1..Len(lumi_spans[n].inner_tags) :
               WithinText(lumi_spans[n].inner_tags[j], lumi_spans[n].text)

\* "a. a" with an annotation over ". a": it is cut at the end of the first
\* sentence and at the start of the second.
C2_Witness ==
    /\ SplitPath
    /\ cleaned_text = <<"a", ".", " ", "a">>
    /\ Len(all_inner_tags) = 1
    /\ all_inner_tags[1].position = Position(1, 4)
    /\ Len(lumi_spans) = 2
    /\ lumi_spans[1].inner_tags[1].position = Position(1, 2)
    /\ lumi_spans[2].inner_tags[1].position = Position(0, 1)

C4_SpansAreTheSentences ==
    SplitPath =>
        /\ Len(lumi_spans) = Len(SentenceBounds(cleaned_text, no_break))
        /\ SpanTexts = sent_tokenize(cleaned_text, no_break)
        /\ Reconstructs(cleaned_text, 0, SpanTexts, 1, TRUE)

\* C4 as stated: the separators between consecutive sentences are all that
\* the span texts leave out of the cleaned text.
C4_OnlySeparatorsBetweenSentencesLeftOut ==
    SplitPath =>
        /\ Len(lumi_spans) = Len(SentenceBounds(cleaned_text, no_break))
        /\ SpanTexts = sent_tokenize(cleaned_text, no_break)
        /\ Reconstructs(cleaned_text, 0, SpanTexts, 1, FALSE)

\* "a. a ": two spans "a." and "a", a separator between them and one more
\* space after the second.
C4_Witness ==
    /\ SplitPath
    /\ cleaned_text = <<"a", ".", " ", "a", " ">>
    /\ SpanTexts = << <<"a", ".">>, <<"a">> >>

(***************************************************************************)
(* C5: nested annotations use parent-relative coordinates, and an          *)
(* annotation over content of n >= 1 cleaned characters beginning at       *)
(* offset p has start p and end p+n-1: for bold wrapping concept wrapping  *)
(* a word, bold is (p, p+n-1) and its single child concept is (0, n-1).    *)
(* This is the claim as stated; the parser records end p+n.                *)
(***************************************************************************)
C5_ParentRelativeInclusiveEnd ==
    parse_pc = "return" =>
        \A p \in 0..Len(raw_content), n \in 1..Len(raw_content) :
            (/\ Len(raw_content) = p + n + 4
             /\ Plain(Slice(raw_content, 0, p))
             /\ Slice(raw_content, p, p + 2) = <<"<b>", "[c]">>
             /\ Plain(Slice(raw_content, p + 2, p + 2 + n))
             /\ Slice(raw_content, p + 2 + n, p + n + 4) = <<"[c]", "</b>">>)
            => /\ Len(parse_result.inner_tags) = 1
               /\ parse_result.inner_tags[1].tag_name = "b"
               /\ parse_result.inner_tags[1].position = Position(p, p + n - 1)
               /\ Len(parse_result.inner_tags[1].children) = 1
               /\ parse_result.inner_tags[1].children[1].tag_name = "concept"
               /\ parse_result.inner_tags[1].children[1].position
                      = Position(0, n - 1)

C7_UnmatchedMarkerStaysLiteral ==
    parse_pc = "return" =>
        LET consumed == ConsumedPositions(parse_result.inner_tags, 1, 0, 0)
        IN  /\ TagsInRange(Len(parse_result.cleaned_text_content),
                           parse_result.inner_tags, 1, 0)
            /\ consumed \subseteq 0..(Len(raw_content) - 1)
            /\ \A i \in consumed : raw_content[i + 1] \in MarkerTokens
            /\ \A i \in 0..(Len(raw_content) - 1) :
                   UnmatchedMarker(raw_content, i) => i \notin consumed
            /\ parse_result.cleaned_text_content = Without(raw_content, consumed)

C7_Witness ==
    /\ parse_pc = "return"
    /\ raw_content = <<"a", "<b>", "x", "[c]", "a", "[c]">>
    /\ UnmatchedMarker(raw_content, 1)
    /\ parse_result.cleaned_text_content = <<"a", "<b>", "x", "a">>
    /\ parse_result.inner_tags
           = << InnerTag("concept", "id:c", Position(3, 4), <<>>) >>

(***************************************************************************)
(* What the placeholder extraction and the block parser did, seen from     *)
(* outside.                                                                *)
(***************************************************************************)
IsPlaceholder(item) == item.kind = "placeholder"

IsBlockMarker(item) == item.kind \in {"image", "html", "figure"}

\* The positions of the placeholder tokens of a text.
Tokens(text) == {i \in 1..Len(text) : IsPlaceholder(text[i])}

Preprocessed == fig_pc \in {"preprocessed", "return", "none"}

\* The positions at which a run of characters begins, and where it ends.
RunStarts(text) ==
    {i \in 1..Len(text) :
        ~IsPlaceholder(text[i]) /\ (i = 1 \/ IsPlaceholder(text[i - 1]))}

RunEnd(text, i) ==
    CHOOSE j \in i..Len(text) :
        /\ \A m \in i..j : ~IsPlaceholder(text[m])
        /\ j = Len(text) \/ IsPlaceholder(text[j + 1])

Run(text, i) == BlockText(SubSeq(text, i, RunEnd(text, i)))

\* The positions of a block text that stand for a content: the beginnings of
\* its runs of not only whitespace, and its tokens with an entry in the map.
ContentPositions(text, map) ==
    {i \in RunStarts(text) : ~IsBlank(Run(text, i))}
        \cup {i \in Tokens(text) : text[i] \in DOMAIN map}

IsTextContent(content) == "text_content" \in DOMAIN content

(***************************************************************************)
(* C8: for the text that preprocess_and_replace_figures returned, given to *)
(* _parse_html_block_for_lumi_contents with the map it filled: the         *)
(* returned contents are, from left to right, one TextContent for each run *)
(* of text that is not only whitespace and, for each token with an entry   *)
(* in the map, that entry, once; and no span of a TextContent holds a      *)
(* placeholder token.                                                      *)
(***************************************************************************)
C8_PlaceholdersResolvedInOrder ==
    fig_pc = "return" =>
        LET at == ContentPositions(processed_html, placeholder_map)
            Rank(i) == Cardinality({j \in at : j <= i})
        IN  /\ Len(lumi_contents) = Cardinality(at)
            /\ \A i \in at :
                   IF IsPlaceholder(processed_html[i])
                   THEN lumi_contents[Rank(i)] = placeholder_map[processed_html[i]]
                   ELSE /\ IsTextContent(lumi_contents[Rank(i)])
                        /\ Len(lumi_contents[Rank(i)].text_content.spans) = 1
                        /\ lumi_contents[Rank(i)].text_content.spans[1].text
                               = Slice(Run(processed_html, i), 0,
                                       RStripLen(Run(processed_html, i)))
            /\ \A n \in 1..Len(lumi_contents) :
                   IsTextContent(lumi_contents[n]) =>
                       \A k \in 1..Len(lumi_contents[n].text_content.spans) :
                           \A c \in 1..Len(lumi_contents[n].text_content.spans[k].text) :
                               lumi_contents[n].text_content.spans[k].text[c]
                                   # ItemText(_get_placeholder_id(0))

\* Text, a bare image marker, text, a literal-HTML figure marker: the four
\* contents come back in this order.
C8_Witness ==
    /\ fig_pc = "return"
    /\ raw_markdown_string =
           << Char("a"), ImageMarker("fig1.png", <<>>), Char("a"),
              HtmlFigureMarker(<<Char("a")>>, <<>>) >>
    /\ processed_html = << Char("a"), _get_placeholder_id(2), Char("a"),
                           _get_placeholder_id(1) >>
    /\ Len(lumi_contents) = 4
    /\ IsTextContent(lumi_contents[1])
    /\ lumi_contents[2] = placeholder_map[_get_placeholder_id(2)]
    /\ "image_content" \in DOMAIN lumi_contents[2]
    /\ IsTextContent(lumi_contents[3])
    /\ lumi_contents[4] = placeholder_map[_get_placeholder_id(1)]
    /\ "html_figure_content" \in DOMAIN lumi_contents[4]

\* What C9 says of a call's raw text, returned text and map.
TokensAndMapAgree ==
    /\ Len(processed_html) = Len(raw_markdown_string)
    /\ \A i \in 1..Len(raw_markdown_string) :
           IF IsBlockMarker(raw_markdown_string[i])
           THEN IsPlaceholder(processed_html[i])
           ELSE processed_html[i] = raw_markdown_string[i]
    /\ Cardinality(DOMAIN placeholder_map) = Cardinality(Tokens(processed_html))
    /\ \A i \in Tokens(processed_html) :
           /\ processed_html[i] \in DOMAIN placeholder_map
           /\ placeholder_map[processed_html[i]].id = processed_html[i].id

(***************************************************************************)
(* C9: when the raw text holds no placeholder token of its own (and the    *)
(* ids are distinct, as they are here), preprocess_and_replace_figures     *)
(* puts a token in the place of every block marker and leaves all other    *)
(* text as it was; the map has as many entries as the returned text has    *)
(* tokens, every token of the returned text is a key of the map, and the   *)
(* entry of a token carries the token's id.                                *)
(***************************************************************************)
C9_TokensAndMapAgree ==
    (Preprocessed /\ Tokens(raw_markdown_string) = {}) => TokensAndMapAgree

\* C9 as stated, for every raw text.
C9_TokensAndMapAgreeForEveryText == Preprocessed => TokensAndMapAgree

\* The raw text of test_interleaved_image_and_html_figure, and a figure
\* container after it: ids go to the containers first.
C9_Witness ==
    /\ Preprocessed
    /\ raw_markdown_string =
           << ImageMarker("fig1.png", <<>>), Char("a"),
              HtmlFigureMarker(<<Char(" "), Char("a")>>, <<"<b>", "a", "</b>">>),
              FigureMarker(<<ImageMarker("fig1.png", <<>>)>>, <<"a">>) >>
    /\ processed_html = << _get_placeholder_id(5), Char("a"),
                           _get_placeholder_id(3), _get_placeholder_id(1) >>
    /\ DOMAIN placeholder_map = {_get_placeholder_id(1), _get_placeholder_id(3),
                                 _get_placeholder_id(5)}

(***************************************************************************)
(* What a _get_list_content_from_tag call returned, seen from outside.     *)
(***************************************************************************)
IsListNode(node) == node.name \in DEFAULT_LIST_TAGS

\* The text of the li tag's children that are not lists.
RECURSIVE OwnText(_, _)
OwnText(contents, k) ==
    IF k > Len(contents) THEN <<>>
    ELSE (IF IsListNode(contents[k]) THEN <<>> ELSE get_text(contents[k]))
             \o OwnText(contents, k + 1)

\* The span texts of an item whose text, before parsing, is raw.
SpanTextsOf(raw) ==
    LET parsed == parse_text_and_extract_inner_tags(raw)
        spans == create_lumi_spans(parsed.cleaned_text_content,
                                   parsed.inner_tags, FALSE, {}, 0)
    IN  IF IsBlank(parsed.cleaned_text_content) /\ parsed.inner_tags = <<>>
        THEN <<>>
        ELSE [n \in 1..Len(spans) |-> spans[n].text]

(***************************************************************************)
(* C10: every list item keeps at most one subList, the one of the first    *)
(* list among the li tag's children; a later list among them adds nothing  *)
(* to the subList and nothing to the item's spans, which are those of the  *)
(* text of the children that are not lists.                                *)
(***************************************************************************)
C10_LaterNestedListsDiscarded ==
    list_pc = "return" =>
        \A n \in 1..Len(tag.items) :
            LET contents == tag.items[n].contents
                item == list_content[1].list_content.list_items[n]
                lists == {k \in 1..Len(contents) : IsListNode(contents[k])}
            IN  /\ Len(item.subListContent) <= 1
                /\ lists = {} => item.subListContent = <<>>
                /\ lists # {} =>
                       LET first == contents[CHOOSE k \in lists :
                                                 \A j \in lists : k <= j]
                       IN  /\ Len(item.subListContent) = 1
                           /\ item.subListContent[1].is_ordered
                                  = (first.name = ORDERED_LIST_TAG)
                           /\ Len(item.subListContent[1].list_items)
                                  = Len(first.items)
                /\ [k \in 1..Len(item.spans) |-> item.spans[k].text]
                       = SpanTextsOf(OwnText(contents, 1))

(***************************************************************************)
(* C11: a content tag met while no section is open makes a section with    *)
(* heading level 0 and empty heading text, which is appended to the        *)
(* top-level list and pushed on the stack, and the content is stored in    *)
(* it: every content tag's content is held by exactly one section, and the *)
(* contents that precede every heading are held, in order, by that         *)
(* synthetic section.                                                      *)
(***************************************************************************)
IsContentTag(i) == blocks[i].name = "p"

\* The content tags that no heading tag precedes.
BeforeAnyHeading(i) == \A j \in 1..i : IsContentTag(j)

HoldersOf(i) == {s \in DOMAIN sections : i \in Range(sections[s].contents)}

LevelOf(s) == sections[s].heading_level

OpenBelow(L) == SelectSeq(section_stack, LAMBDA s : LevelOf(s) < L)

HeadingStep == Len(blocks') = Len(blocks) + 1 /\ Last(blocks').name = "h"

HeadingStepEffect ==
    LET L == Last(blocks').level
        id == Len(blocks')
        kept == OpenBelow(L)
    IN  /\ section_stack' = Append(kept, id)
        /\ sections'[id] = LumiSection(L, HeadingText)
        /\ IF kept = <<>>
           THEN /\ root_sections' = Append(root_sections, id)
                /\ \A s \in DOMAIN sections : sections'[s] = sections[s]
           ELSE /\ root_sections' = root_sections
                /\ LevelOf(Last(kept)) < L
                /\ sections'[Last(kept)].sub_sections =
                       Append(sections[Last(kept)].sub_sections, id)
                /\ sections'[Last(kept)].contents = sections[Last(kept)].contents
                /\ \A s \in DOMAIN sections \ {Last(kept)} :
                       sections'[s] = sections[s]

ClosedSectionsStayClosed ==
    \A s \in DOMAIN sections :
        s \notin Range(section_stack) =>
            /\ s \notin Range(section_stack')
            /\ sections'[s] = sections[s]

C18_HeadingClosesEqualOrDeeperSections ==
    [][/\ HeadingStep => HeadingStepEffect
       /\ ClosedSectionsStayClosed]_vars

\* H1, H2, H2: the second H2 closed the first and is its sibling under the H1;
\* a following H1 closed all three.
C18_Witness ==
    /\ blocks = <<H(1), H(2), P, H(2), H(1)>>
    /\ sections[1].sub_sections = <<2, 4>>
    /\ sections[2].sub_sections = <<>>
    /\ sections[2].contents = <<3>>
    /\ root_sections = <<1, 5>>
    /\ section_stack = <<5>>

(***************************************************************************)
(* C12: when skip_tokenize is set, or the segmenter returns no sentence,   *)
(* create_lumi_spans returns exactly one span holding the whole cleaned    *)
(* text and the given annotations, offsets untouched, unless the text is   *)
(* empty or all whitespace and no annotation is given: then it returns no  *)
(* span.                                                                   *)
(***************************************************************************)
NoSplitPath ==
    /\ SpansReturned
    /\ skip_tokenize \/ sent_tokenize(cleaned_text, no_break) = <<>>

OneWholeTextSpan ==
    /\ Len(lumi_spans) = 1
    /\ lumi_spans[1].text = cleaned_text
    /\ lumi_spans[1].inner_tags = all_inner_tags

C12_NoSplitGivesOneWholeTextSpan ==
    NoSplitPath =>
        IF IsBlank(cleaned_text) /\ all_inner_tags = <<>>
        THEN lumi_spans = <<>>
        ELSE OneWholeTextSpan

\* As stated: one whole-text span for every non-empty text, whitespace-only
\* text included.
C12_OneSpanForEveryNonEmptyText ==
    (NoSplitPath /\ cleaned_text # <<>>) => OneWholeTextSpan

\* "a. a" with skip_tokenize set and an annotation across the sentence break:
\* one span, the annotation as given.
C12_Witness ==
    /\ SpansReturned
    /\ skip_tokenize
    /\ cleaned_text = <<"a", ".", " ", "a">>
    /\ all_inner_tags = <<InnerTag("concept", 1, Position(1, 4), <<ChildTag>>)>>
    /\ OneWholeTextSpan

\* A whitespace-only text with an annotation and skip_tokenize not set: the
\* segmenter returns no sentence and the one span holds the text.
C12_WitnessNoSentences ==
    /\ SpansReturned
    /\ ~skip_tokenize
    /\ cleaned_text = <<" ">>
    /\ all_inner_tags # <<>>
    /\ sent_tokenize(cleaned_text, no_break) = <<>>
    /\ OneWholeTextSpan

(***************************************************************************)
(* convert_model_output_to_lumi_doc: the loop over the parsed reference    *)
(* items.  An item is a record of an id and a content string; the content  *)
(* may hold inline markers, periods and spaces.                            *)
(***************************************************************************)
MaxRefs == 2          \* items in parsed_data.get("references")

RefIds == {"ref1", "ref2"}

RefContents ==
    { <<>>,
      <<" ">>,
      <<"a">>,
      <<"a", ".">>,
      <<".", " ", "a">>,
      <<"a", ".", " ", "a", ".">>,
      <<"<b>", "a", ".", " ", "a", "</b>">>,
      <<"<b>", "a", "</b>", ".", " ", "a">>,
      <<"<b>", "a", ".">> }

RefItems == {[id |-> i, content |-> c] : i \in RefIds, c \in RefContents}

LumiReference(id, span) == [id |-> id, span |-> span]

\* Mutant: the span is the first of the spans create_lumi_spans makes.
ReferenceSpan_FirstSentence(uid, cleaned, inner_tags) ==
    Only({ IF spans = <<>> THEN LumiSpan(uid, cleaned, inner_tags) ELSE spans[1] :
           spans \in {create_lumi_spans(cleaned, inner_tags, FALSE, {}, uid - 1)} })

\* span=LumiSpan(id=get_unique_id(), text=cleaned_text, inner_tags=inner_tags)
ReferenceSpan(uid, cleaned, inner_tags) == LumiSpan(uid, cleaned, inner_tags)

RefsInit ==
    /\ references \in SeqsUpTo(RefItems, MaxRefs)
    /\ lumi_references = <<>>
    /\ refs_pc = "loop"
    /\ SectionsIdle /\ ParseIdle /\ SpansIdle /\ FigIdle /\ ListIdle /\ MainIdle /\ WalkIdle /\ TxIdle

\* One iteration of `for item in parsed_data.get("references")`.
RefsItem ==
    /\ refs_pc = "loop"
    /\ Len(lumi_references) < Len(references)
    /\ lumi_references' =
          Only({ Append(lumi_references,
                        LumiReference(item.id,
                            ReferenceSpan(Len(lumi_references) + 1,
                                          parsed.cleaned_text_content,
                                          parsed.inner_tags))) :
                 <<item, parsed>> \in
                     {<<it, parse_text_and_extract_inner_tags(it.content)>> :
                          it \in {references[Len(lumi_references) + 1]}} })
    /\ UNCHANGED <<references, refs_pc>>
    /\ UNCHANGED <<sectionVars, parseVars, spansVars, figVars, listVars, mainVars, walkVars, txVars>>

\* The loop is over (or, for an empty list, never entered).
RefsReturn ==
    /\ refs_pc = "loop"
    /\ Len(lumi_references) = Len(references)
    /\ refs_pc' = "return"
    /\ UNCHANGED <<references, lumi_references>>
    /\ UNCHANGED <<sectionVars, parseVars, spansVars, figVars, listVars, mainVars, walkVars, txVars>>

RefsNext == RefsItem \/ RefsReturn

SpecRefs == RefsInit /\ [][RefsNext]_vars

(***************************************************************************)
(* C13: every reference item becomes one LumiReference with the item's id, *)
(* in the input order, whose one span holds the whole cleaned content (the *)
(* content without the markers of its annotations, every period and space  *)
(* kept) and the annotations the parser found, whatever periods the        *)
(* content holds.                                                          *)
(***************************************************************************)
RefsReturned == refs_pc = "return"

Periods(text) == Count(text, {"."})

\* The number of annotations in a list, children included.
RECURSIVE TagCount(_)
TagCount(tags) ==
    IF tags = <<>> THEN 0
    ELSE 1 + TagCount(tags[1].children) + TagCount(Tail(tags))

WholeReference(k) ==
    LET item == references[k]
        ref == lumi_references[k]
        parsed == parse_text_and_extract_inner_tags(item.content)
    IN  /\ ref.id = item.id
        /\ ref.span.text = parsed.cleaned_text_content
        /\ ref.span.inner_tags = parsed.inner_tags
        /\ Periods(ref.span.text) = Periods(item.content)
        /\ Len(ref.span.text) =
               Len(item.content) - 2 * TagCount(parsed.inner_tags)

C13_OneUnsplitSpanPerReference ==
    /\ Len(lumi_references) <= Len(references)
    /\ \A k \in 1..Len(lumi_references) : WholeReference(k)
    /\ RefsReturned => Len(lumi_references) = Len(references)

\* Two references, the first with two sentences inside a bold annotation.
C13_Witness ==
    /\ RefsReturned
    /\ references =
          << [id |-> "ref2", content |-> <<"<b>", "a", ".", " ", "a", "</b>">>],
             [id |-> "ref1", content |-> <<"a", ".", " ", "a", ".">>] >>
    /\ lumi_references[1].id = "ref2"
    /\ lumi_references[1].span.text = <<"a", ".", " ", "a">>
    /\ lumi_references[1].span.inner_tags =
          <<InnerTag("b", "none", Position(0, 4), <<>>)>>
    /\ lumi_references[2].id = "ref1"
    /\ lumi_references[2].span.text = <<"a", ".", " ", "a", ".">>

(***************************************************************************)
(* C14: a placeholder token of the block text that has no entry in the map *)
(* is dropped: the call returns its list, the list holds nothing for the   *)
(* token, no span of a TextContent holds the token's text, and the runs of *)
(* text before and after the token each give their TextContent, the one    *)
(* right after the other.                                                  *)
(***************************************************************************)
Unmapped(text, map) == {i \in Tokens(text) : text[i] \notin DOMAIN map}

\* The texts of all spans of all TextContents of a list of contents.
AllSpanTexts(contents) ==
    UNION {{contents[n].text_content.spans[k].text :
               k \in 1..Len(contents[n].text_content.spans)} :
           n \in {m \in 1..Len(contents) : IsTextContent(contents[m])}}

\* The position at which the run of characters ending at position j begins.
RunStartBefore(text, j) ==
    CHOOSE b \in RunStarts(text) : b <= j /\ RunEnd(text, b) = j

\* The number of contents the text gives up to position i: one for each run
\* of not only whitespace and one for each token with an entry.
ContentsUpTo(text, map, i) ==
    Cardinality({j \in ContentPositions(text, map) : j <= i})

TextContentOfRun(text, map, b) ==
    LET content == lumi_contents[ContentsUpTo(text, map, b)]
    IN  /\ IsTextContent(content)
        /\ content.text_content.spans[1].text
               = Slice(Run(text, b), 0, RStripLen(Run(text, b)))

DroppedSilently(text, map, i) ==
    LET hasBefore == i > 1 /\ ~IsPlaceholder(text[i - 1])
        hasAfter == i < Len(text) /\ ~IsPlaceholder(text[i + 1])
        b == RunStartBefore(text, i - 1)
    IN  /\ \A n \in 1..Len(lumi_contents) :
               IsTextContent(lumi_contents[n]) \/ lumi_contents[n].id # text[i].id
        /\ \A t \in AllSpanTexts(lumi_contents) : ItemText(text[i]) \notin Range(t)
        /\ (hasBefore /\ ~IsBlank(Run(text, b))) => TextContentOfRun(text, map, b)
        /\ (hasAfter /\ ~IsBlank(Run(text, i + 1))) =>
               TextContentOfRun(text, map, i + 1)
        /\ (hasBefore /\ hasAfter /\ ~IsBlank(Run(text, b))
                /\ ~IsBlank(Run(text, i + 1))) =>
               ContentsUpTo(text, map, i + 1) = ContentsUpTo(text, map, b) + 1

C14_UnmappedTokenDroppedSilently ==
    /\ (fig_pc = "none") => Unmapped(processed_html, placeholder_map) = {}
    /\ (fig_pc = "return") =>
           /\ \A i \in Unmapped(processed_html, placeholder_map) :
                  DroppedSilently(processed_html, placeholder_map, i)
           /\ Len(lumi_contents) =
                  ContentsUpTo(processed_html, placeholder_map, Len(processed_html))

\* Text, a token without an entry, text: two TextContents and nothing else.
C14_Witness ==
    /\ fig_pc = "return"
    /\ processed_html = << Char("a"), _get_placeholder_id(0), Char("a") >>
    /\ placeholder_map = <<>>
    /\ Len(lumi_contents) = 2
    /\ IsTextContent(lumi_contents[1])
    /\ IsTextContent(lumi_contents[2])
    /\ AllSpanTexts(lumi_contents) = {<<"a">>}

(***************************************************************************)
(* main.py: the Firestore trigger on_document_import_requested, the        *)
(* callable endpoints, and the one versioned document they write.          *)
(*                                                                         *)
(* A document snapshot is a record of whether the document exists, its     *)
(* loadingStatus and the set of its other fields.  Every write of the      *)
(* document queues its snapshot for the trigger; an invocation reads the   *)
(* snapshot it was started with (event.data.after), works, and ends with   *)
(* one update of the document.  The collaborators (licence check, metadata *)
(* fetch, import, summaries, answers) are inputs: they succeed or raise.   *)
(***************************************************************************)
MaxWrites  == 6       \* writes made to the document
MaxRunning == 2       \* invocations of the trigger at work at the same time

LoadingStatus ==
    {"UNSET", "WAITING", "IN_PROGRESS", "SUMMARIZING", "SUCCESS", "ERROR", "TIMEOUT"}

ARXIV_ID_MAX_LENGTH == 20

MAX_QUERY_LENGTH == 1000

MAX_HIGHLIGHT_LENGTH == 100000

Document(loadingStatus, fields) ==
    [exists |-> TRUE, loadingStatus |-> loadingStatus, fields |-> fields]

\* No document: event.data.after is None, doc.exists is False.
NoDocument == [exists |-> FALSE, loadingStatus |-> "UNSET", fields |-> {}]

\* versioned_doc_ref.update({...}): the given fields are set, the others stay.
update(d, loadingStatus, fields) == Document(loadingStatus, d.fields \cup fields)

Remove(s, i) == SubSeq(s, 1, i - 1) \o SubSeq(s, i + 1, Len(s))

\* Mutant: a document in ERROR is imported again.
Branch_RetryOnError(after) ==
    IF ~after.exists THEN "return"
    ELSE IF after.loadingStatus \in {"WAITING", "ERROR"} THEN "import"
    ELSE IF after.loadingStatus = "SUMMARIZING" THEN "summarize"
    ELSE "return"

\* if not event.data.after: return
\* if loading_status == LoadingStatus.WAITING: ...
\* elif loading_status == LoadingStatus.SUMMARIZING: ...
Branch(after) ==
    IF ~after.exists THEN "return"
    ELSE IF after.loadingStatus = "WAITING" THEN "import"
    ELSE IF after.loadingStatus = "SUMMARIZING" THEN "summarize"
    ELSE "return"

\* The update the WAITING branch ends with: the imported document with
\* status SUMMARIZING, or, when the import raised, ERROR and loadingError.
ImportUpdate(d, raised) ==
    IF raised THEN update(d, "ERROR", {"loadingError"})
    ELSE update(d, "SUMMARIZING", {"lumi_doc"})

\* Mutant: the summaries are written and the status stays SUMMARIZING.
SummaryUpdate_StaysSummarizing(d, after, raised) ==
    IF raised THEN update(d, "ERROR", {"loadingError"})
    ELSE update(d, "SUMMARIZING", after.fields \cup {"summaries"})

\* The update the SUMMARIZING branch ends with: the document of the snapshot
\* with its summaries and status SUCCESS, or ERROR and loadingError.
SummaryUpdate(d, after, raised) ==
    IF raised THEN update(d, "ERROR", {"loadingError"})
    ELSE update(d, "SUCCESS", after.fields \cup {"summaries"})

\* on_document_import_requested is called with the snapshot events[i].
on_document_import_requested(i) ==
    /\ events' = Remove(events, i)
    /\ IF Branch(events[i]) = "return"
       THEN running' = running
       ELSE /\ Len(running) < MaxRunning
            /\ running' = Append(running, events[i])
    /\ UNCHANGED <<doc, n_writes, last_call>>

\* The invocation running[k] ends: its step returned or raised, and it calls
\* versioned_doc_ref.update, which raises NotFound when the document is gone
\* (then the update of the except branch raises too, and nothing is written).
InvocationEnds(k, raised) ==
    /\ running' = Remove(running, k)
    /\ IF doc.exists
       THEN /\ n_writes < MaxWrites
            /\ doc' = IF Branch(running[k]) = "import"
                      THEN ImportUpdate(doc, raised)
                      ELSE SummaryUpdate(doc, running[k], raised)
            /\ events' = Append(events, doc')
            /\ n_writes' = n_writes + 1
       ELSE UNCHANGED <<doc, events, n_writes>>
    /\ UNCHANGED last_call

\* Mutant: the document is set whatever is there.
_try_doc_write_AlwaysSet(d) == Document("WAITING", {"metadata"})

\* _try_doc_write: the document is set to WAITING with the metadata unless it
\* exists with a status other than ERROR.
_try_doc_write(d) ==
    IF d.exists /\ d.loadingStatus # "ERROR" THEN d
    ELSE Document("WAITING", {"metadata"})

\* Somebody deletes the document.
DeleteDocument ==
    /\ doc.exists
    /\ n_writes < MaxWrites
    /\ doc' = NoDocument
    /\ events' = Append(events, NoDocument)
    /\ n_writes' = n_writes + 1
    /\ UNCHANGED <<running, last_call>>

\* A request_arxiv_doc_import call that gets as far as _try_doc_write.
ImportRequested ==
    /\ _try_doc_write(doc) # doc
    /\ n_writes < MaxWrites
    /\ doc' = _try_doc_write(doc)
    /\ events' = Append(events, doc')
    /\ n_writes' = n_writes + 1
    /\ UNCHANGED <<running, last_call>>

\* The arxiv_id of a request: absent, or a string of some length.
ArxivIds ==
    {[given |-> FALSE, len |-> 0]}
        \cup {[given |-> TRUE, len |-> n] :
                 n \in {0, 1, ARXIV_ID_MAX_LENGTH, ARXIV_ID_MAX_LENGTH + 1}}

\* What fetch_utils.check_arxiv_license does.
LicenceChecks == {"passes", "ValueError", "Exception"}

\* Lengths of the query, and of the highlight, of a request (0: None or "").
QueryLengths == {0, MAX_QUERY_LENGTH, MAX_QUERY_LENGTH + 1}

HighlightLengths == {0, MAX_HIGHLIGHT_LENGTH, MAX_HIGHLIGHT_LENGTH + 1}

HttpsError(code) == [raised |-> code]

Returned(value) == [returned |-> value]

\* Mutant: an arxiv_id one character over the limit passes.
ArxivIdInvalid_OneOver(arxiv_id) ==
    \/ ~arxiv_id.given \/ arxiv_id.len = 0
    \/ arxiv_id.len > ARXIV_ID_MAX_LENGTH + 1

\* if not arxiv_id: raise ...   if len(arxiv_id) > ARXIV_ID_MAX_LENGTH: raise ...
ArxivIdInvalid(arxiv_id) ==
    \/ ~arxiv_id.given \/ arxiv_id.len = 0
    \/ arxiv_id.len > ARXIV_ID_MAX_LENGTH

\* Mutant: a failed licence check is logged and the import goes on.
LicenceCheck_LogOnly(licence) == "passes"

\* try: fetch_utils.check_arxiv_license(arxiv_id)
\* except ValueError as e: ... return    except Exception as e: ... raise
LicenceCheck(licence) == licence

\* request_arxiv_doc_import: the collaborators called, in order, and the
\* result; n_metadata is the length of the list fetch_arxiv_metadata returns.
request_arxiv_doc_import(arxiv_id, licence, n_metadata) ==
    IF ArxivIdInvalid(arxiv_id)
    THEN [calls |-> <<>>, result |-> HttpsError("INVALID_ARGUMENT")]
    ELSE IF LicenceCheck(licence) = "ValueError"
    THEN [calls |-> <<"check_arxiv_license">>,
          result |-> Returned([metadata |-> <<>>, error |-> <<"str(e)">>])]
    ELSE IF LicenceCheck(licence) = "Exception"
    THEN [calls |-> <<"check_arxiv_license">>, result |-> HttpsError("INTERNAL")]
    ELSE IF n_metadata # 1
    THEN [calls |-> <<"check_arxiv_license", "fetch_arxiv_metadata">>,
          result |-> HttpsError("INTERNAL")]
    ELSE [calls |-> <<"check_arxiv_license", "fetch_arxiv_metadata", "_try_doc_write">>,
          result |-> Returned([metadata |-> <<"metadata">>, error |-> <<>>])]

get_arxiv_metadata(arxiv_id, n_metadata) ==
    IF ArxivIdInvalid(arxiv_id)
    THEN [calls |-> <<>>, result |-> HttpsError("INVALID_ARGUMENT")]
    ELSE IF n_metadata = 0
    THEN [calls |-> <<"fetch_arxiv_metadata">>, result |-> HttpsError("NOT_FOUND")]
    ELSE [calls |-> <<"fetch_arxiv_metadata">>, result |-> Returned(<<"metadata">>)]

\* query and highlight are the lengths of lumi_request.query and
\* lumi_request.highlight; emulated is _is_locally_emulated().
get_lumi_response(doc_given, request_given, query, highlight, emulated) ==
    IF ~doc_given \/ ~request_given
    THEN [calls |-> <<>>, result |-> HttpsError("INVALID_ARGUMENT")]
    ELSE IF query # 0 /\ query > MAX_QUERY_LENGTH
    THEN [calls |-> <<>>, result |-> HttpsError("INVALID_ARGUMENT")]
    ELSE IF highlight # 0 /\ highlight > MAX_HIGHLIGHT_LENGTH
    THEN [calls |-> <<>>, result |-> HttpsError("INVALID_ARGUMENT")]
    ELSE [calls |-> <<"generate_lumi_answer">>
                       \o (IF emulated THEN <<>> ELSE <<"_log_query">>),
          result |-> Returned(<<"lumi_answer">>)]

get_personal_summary(doc_given, past_papers_given) ==
    IF ~doc_given \/ ~past_papers_given
    THEN [calls |-> <<>>, result |-> HttpsError("INVALID_ARGUMENT")]
    ELSE [calls |-> <<"get_personal_summary">>,
          result |-> Returned(<<"summary">>)]

\* A call of an endpoint that leaves the document alone.
Call(endpoint, args, done) ==
    /\ last_call' = [endpoint |-> endpoint, args |-> args, calls |-> done.calls,
                     result |-> done.result, doc_before |-> doc, doc_after |-> doc]
    /\ UNCHANGED <<doc, events, running, n_writes>>

CallRequestArxivDocImport ==
    \E arxiv_id \in ArxivIds, licence \in LicenceChecks, n_metadata \in 0..2 :
        LET done == request_arxiv_doc_import(arxiv_id, licence, n_metadata)
            set == IF "_try_doc_write" \in Range(done.calls)
                   THEN _try_doc_write(doc) ELSE doc
        IN  /\ (set # doc) => n_writes < MaxWrites
            /\ doc' = set
            /\ events' = IF set # doc THEN Append(events, set) ELSE events
            /\ n_writes' = IF set # doc THEN n_writes + 1 ELSE n_writes
            /\ last_call' =
                  [endpoint |-> "request_arxiv_doc_import",
                   args |-> [arxiv_id |-> arxiv_id, licence |-> licence,
                             n_metadata |-> n_metadata],
                   calls |-> done.calls, result |-> done.result,
                   doc_before |-> doc, doc_after |-> set]
            /\ UNCHANGED running

CallGetArxivMetadata ==
    \E arxiv_id \in ArxivIds, n_metadata \in 0..2 :
        Call("get_arxiv_metadata",
             [arxiv_id |-> arxiv_id, n_metadata |-> n_metadata],
             get_arxiv_metadata(arxiv_id, n_metadata))

CallGetLumiResponse ==
    \E doc_given \in BOOLEAN, request_given \in BOOLEAN, query \in QueryLengths,
       highlight \in HighlightLengths, emulated \in BOOLEAN :
        Call("get_lumi_response",
             [doc_given |-> doc_given, request_given |-> request_given,
              query |-> query, highlight |-> highlight, emulated |-> emulated],
             get_lumi_response(doc_given, request_given, query, highlight, emulated))

CallGetPersonalSummary ==
    \E doc_given \in BOOLEAN, past_papers_given \in BOOLEAN :
        Call("get_personal_summary",
             [doc_given |-> doc_given, past_papers_given |-> past_papers_given],
             get_personal_summary(doc_given, past_papers_given))

NoCall == [endpoint |-> "none"]

\* There is no document, or somebody has written one with some status.
MainInit ==
    /\ doc \in {NoDocument} \cup {Document(st, {"metadata"}) : st \in LoadingStatus}
    /\ events = IF doc.exists THEN <<doc>> ELSE <<>>
    /\ running = <<>>
    /\ n_writes = 0
    /\ last_call = NoCall
    /\ SectionsIdle /\ ParseIdle /\ SpansIdle /\ FigIdle /\ ListIdle /\ RefsIdle
    /\ WalkIdle /\ TxIdle

\* The document, the trigger's invocations and the requests that reach
\* _try_doc_write.
TriggerNext ==
    /\ \/ \E i \in 1..Len(events) : on_document_import_requested(i)
       \/ \E k \in 1..Len(running), raised \in BOOLEAN : InvocationEnds(k, raised)
       \/ DeleteDocument
       \/ ImportRequested
    /\ UNCHANGED <<sectionVars, parseVars, spansVars, figVars, listVars, refVars, walkVars, txVars>>

SpecTrigger == MainInit /\ [][TriggerNext]_vars

\* The calls of the callable endpoints.
CallsNext ==
    /\ \/ CallRequestArxivDocImport
       \/ CallGetArxivMetadata
       \/ CallGetLumiResponse
       \/ CallGetPersonalSummary
    /\ UNCHANGED <<sectionVars, parseVars, spansVars, figVars, listVars, refVars, walkVars, txVars>>

SpecCalls == MainInit /\ [][CallsNext]_vars

(***************************************************************************)
(* C15: an invocation of on_document_import_requested that sees WAITING    *)
(* ends by writing the imported document with status SUMMARIZING, one that *)
(* sees SUMMARIZING ends by writing the summaries with status SUCCESS, and *)
(* either writes ERROR with a loadingError when its step raised; these are *)
(* the only writes the trigger makes (an invocation whose document is gone *)
(* by the time it ends writes nothing).  An invocation that sees another   *)
(* status, or a deleted document, ends at once and writes nothing.         *)
(***************************************************************************)
Seen(status) == {k \in 1..Len(running) : running[k].loadingStatus = status}

\* The trigger is called: one queued snapshot is taken.
TriggerCalled == Len(events') = Len(events) - 1

\* An invocation ends.
InvocationOver == Len(running') = Len(running) - 1

WritesFor(after) ==
    \/ /\ ~doc.exists
       /\ doc' = doc
    \/ /\ doc.exists
       /\ after.loadingStatus = "WAITING"
       /\ doc'.loadingStatus = "SUMMARIZING"
       /\ doc'.fields = doc.fields \cup {"lumi_doc"}
    \/ /\ doc.exists
       /\ after.loadingStatus = "SUMMARIZING"
       /\ doc'.loadingStatus = "SUCCESS"
       /\ "summaries" \in doc'.fields
       /\ "loadingError" \in doc'.fields => "loadingError" \in doc.fields \cup after.fields
    \/ /\ doc.exists
       /\ after.loadingStatus \in {"WAITING", "SUMMARIZING"}
       /\ doc'.loadingStatus = "ERROR"
       /\ doc'.fields = doc.fields \cup {"loadingError"}

TriggerStepsAsStated ==
    /\ TriggerCalled =>
          /\ doc' = doc
          /\ \E i \in 1..Len(events) :
                /\ events' = Remove(events, i)
                /\ IF events[i].exists
                      /\ events[i].loadingStatus \in {"WAITING", "SUMMARIZING"}
                   THEN running' = Append(running, events[i])
                   ELSE running' = running
    /\ InvocationOver =>
          \E k \in 1..Len(running) :
              /\ running' = Remove(running, k)
              /\ WritesFor(running[k])
    /\ (~TriggerCalled /\ ~InvocationOver) => running' = running

C15_StatusMovesWaitingSummarizingSuccess == [][TriggerStepsAsStated]_vars

\* A requested import went through both steps: WAITING, SUMMARIZING, SUCCESS,
\* and the invocation that saw SUCCESS has ended without a write.
C15_Witness ==
    /\ doc = Document("SUCCESS", {"metadata", "lumi_doc", "summaries"})
    /\ n_writes = 3
    /\ events = <<>>
    /\ running = <<>>

\* An import that raised: ERROR with a loadingError, and nothing after it.
C15_WitnessError ==
    /\ doc = Document("ERROR", {"metadata", "loadingError"})
    /\ n_writes = 1
    /\ events = <<>>
    /\ running = <<>>

(***************************************************************************)
(* C16: a call of request_arxiv_doc_import or get_arxiv_metadata without   *)
(* an arxiv_id, or with one of more than 20 characters, and a call of      *)
(* get_lumi_response with a query of more than 1000 or a highlight of more *)
(* than 100000 characters, fails with INVALID_ARGUMENT, has called no      *)
(* collaborator (no licence check, metadata fetch, document write, answer  *)
(* or query log) and leaves the document as it was; and no endpoint that   *)
(* fails with INVALID_ARGUMENT has called a collaborator.                  *)
(***************************************************************************)
Called(endpoint) == last_call.endpoint = endpoint

RejectedUntouched ==
    /\ last_call.result = HttpsError("INVALID_ARGUMENT")
    /\ last_call.calls = <<>>
    /\ last_call.doc_after = last_call.doc_before

C16_InvalidInputRejectedBeforeCollaborators ==
    /\ (Called("request_arxiv_doc_import") \/ Called("get_arxiv_metadata")) =>
          ((~last_call.args.arxiv_id.given \/ last_call.args.arxiv_id.len > 20)
              => RejectedUntouched)
    /\ Called("get_lumi_response") =>
          ((last_call.args.query > 1000 \/ last_call.args.highlight > 100000)
              => RejectedUntouched)
    /\ (~Called("none") /\ last_call.result = HttpsError("INVALID_ARGUMENT")) =>
          RejectedUntouched

\* A request for an import with an arxiv_id of 21 characters, a licence
\* check that would pass and no document yet: rejected, nothing called.
C16_Witness ==
    /\ Called("request_arxiv_doc_import")
    /\ last_call.args = [arxiv_id |-> [given |-> TRUE, len |-> 21],
                         licence |-> "passes", n_metadata |-> 1]
    /\ last_call.doc_before = NoDocument
    /\ RejectedUntouched
    /\ doc = NoDocument

(***************************************************************************)
(* C17: when the licence check raises ValueError, request_arxiv_doc_import *)
(* returns a result whose error is the exception's message and whose       *)
(* metadata is None; when it raises another exception the call fails with  *)
(* INTERNAL; in both cases only the licence check was called: no metadata  *)
(* was fetched and the document is as it was.                              *)
(***************************************************************************)
LicenceCheckRaised(exception) ==
    /\ Called("request_arxiv_doc_import")
    /\ last_call.args.arxiv_id.given
    /\ last_call.args.arxiv_id.len \in 1..20
    /\ last_call.args.licence = exception

OnlyLicenceChecked ==
    /\ last_call.calls = <<"check_arxiv_license">>
    /\ last_call.doc_after = last_call.doc_before

C17_LicenceFailureStopsTheImport ==
    /\ LicenceCheckRaised("ValueError") =>
          /\ last_call.result = Returned([metadata |-> <<>>, error |-> <<"str(e)">>])
          /\ OnlyLicenceChecked
    /\ LicenceCheckRaised("Exception") =>
          /\ last_call.result = HttpsError("INTERNAL")
          /\ OnlyLicenceChecked

\* A valid arxiv_id, no document yet, metadata that could be fetched, and a
\* licence check that raises ValueError.
C17_Witness ==
    /\ LicenceCheckRaised("ValueError")
    /\ last_call.args.n_metadata = 1
    /\ last_call.doc_before = NoDocument
    /\ last_call.result = Returned([metadata |-> <<>>, error |-> <<"str(e)">>])
    /\ doc = NoDocument
    /\ events = <<>>

(***************************************************************************)
(* parse_text_and_extract_inner_tags followed one loop iteration at a      *)
(* time.  A frame holds the locals of one call; `at` says where the call   *)
(* stands: "while" at the loop test, "call" waiting for the recursive call *)
(* on the match's content, "return" at the return statement.               *)
(***************************************************************************)
MaxStepLen == 4       \* tokens in the raw_content of the walk by iterations

Frame(raw) ==
    [raw |-> raw, current_position_raw |-> 0, current_position_cleaned |-> 0,
     cleaned_text_content |-> <<>>, inner_tags |-> <<>>,
     earliest_match |-> NoMatch, definition |-> 0, at |-> "while"]

\* Mutant: the cursor goes back to where the match began.
PositionAfterMatch_MatchStart(earliest_match) == earliest_match.start

\* current_position_raw = earliest_match.end()
PositionAfterMatch(earliest_match) == earliest_match.end

\* The loop test and the iteration's first half: the loop ends (test false,
\* or no match and break), or the text before the earliest match is taken
\* over and the function is called on the match's content.
WhileIteration ==
    /\ call_stack # <<>>
    /\ Last(call_stack).at = "while"
    /\ call_stack' = Only({
          IF ~(f.current_position_raw < Len(f.raw))
          THEN Append(Front(call_stack), [f EXCEPT !.at = "return"])
          ELSE Only({
              IF k = 0
              THEN Append(Front(call_stack),
                          [f EXCEPT !.cleaned_text_content =
                                        @ \o RemainingPlainText(f.raw,
                                                                f.current_position_raw),
                                    !.at = "return"])
              ELSE Only({
                  Front(call_stack)
                    \o << [f EXCEPT !.cleaned_text_content =
                                        @ \o Slice(f.raw, f.current_position_raw,
                                                   match.start),
                                    !.current_position_cleaned =
                                        @ + Len(Slice(f.raw, f.current_position_raw,
                                                      match.start)),
                                    !.earliest_match = match,
                                    !.definition = k,
                                    !.at = "call"],
                          Frame(IF TAG_DEFINITIONS[k].has_content
                                THEN match.content ELSE <<>>) >> :
                  match \in {Search(TAG_DEFINITIONS[k], f.raw,
                                    f.current_position_raw)} }) :
              k \in {EarliestMatch(f.raw, f.current_position_raw)} }) :
          f \in {Last(call_stack)} })
    /\ UNCHANGED <<raw_content, parse_pc, parse_result>>
    /\ UNCHANGED <<sectionVars, spansVars, figVars, listVars, refVars, mainVars, walkVars, txVars>>

\* The return statement: the caller's iteration goes on with the returned
\* pair, appends the annotation and moves its cursor; the outermost call
\* hands the pair back.
ReturnFromCall ==
    /\ call_stack # <<>>
    /\ Last(call_stack).at = "return"
    /\ LET f == Last(call_stack)
           p == call_stack[Len(call_stack) - 1]
           tag_start_index == p.current_position_cleaned
           position_after == tag_start_index + Len(f.cleaned_text_content)
           new_tag ==
               InnerTag(TAG_DEFINITIONS[p.definition].name,
                        TAG_DEFINITIONS[p.definition].metadata,
                        Position(tag_start_index, TagEndIndex(position_after)),
                        ChildTags(f.inner_tags, tag_start_index))
       IN  IF Len(call_stack) = 1
           THEN /\ call_stack' = <<>>
                /\ parse_result' = [cleaned_text_content |-> f.cleaned_text_content,
                                    inner_tags |-> f.inner_tags]
                /\ parse_pc' = "return"
           ELSE /\ call_stack' =
                     Append(SubSeq(call_stack, 1, Len(call_stack) - 2),
                            [p EXCEPT !.cleaned_text_content =
                                          @ \o f.cleaned_text_content,
                                      !.current_position_cleaned = position_after,
                                      !.inner_tags = Append(@, new_tag),
                                      !.current_position_raw =
                                          PositionAfterMatch(p.earliest_match),
                                      !.earliest_match = NoMatch,
                                      !.definition = 0,
                                      !.at = "while"])
                /\ UNCHANGED <<parse_result, parse_pc>>
    /\ UNCHANGED raw_content
    /\ UNCHANGED <<sectionVars, spansVars, figVars, listVars, refVars, mainVars, walkVars, txVars>>

ParseStepsInit ==
    /\ ParseIdle
    /\ SectionsIdle /\ SpansIdle /\ FigIdle /\ ListIdle /\ RefsIdle /\ MainIdle /\ WalkIdle /\ TxIdle

\* The function is called on some raw text.
ParseStepsCall ==
    /\ parse_pc = "idle"
    /\ \E raw \in SeqsUpTo(RawTokens, MaxStepLen) :
          /\ raw_content' = raw
          /\ call_stack' = <<Frame(raw)>>
    /\ parse_pc' = "call"
    /\ UNCHANGED parse_result
    /\ UNCHANGED <<sectionVars, spansVars, figVars, listVars, refVars, mainVars, walkVars, txVars>>

ParseStepsNext == ParseStepsCall \/ WhileIteration \/ ReturnFromCall

\* The call runs on until it returns.
SpecParseSteps ==
    ParseStepsInit /\ [][ParseStepsNext]_vars /\ WF_vars(ParseStepsNext)

(***************************************************************************)
(* C19: the call returns for every raw text, with or without a match.      *)
(* When an iteration goes on after a match the cursor has moved strictly   *)
(* forward, to the end of the match; every recursive call is on a text     *)
(* strictly shorter than its caller's; and at every loop test the cursor   *)
(* equals the number of tokens taken so far, each either put into the      *)
(* cleaned text or removed as a marker of a recorded annotation, so that   *)
(* at the return the whole input has been taken once.                      *)
(***************************************************************************)
\* The marker tokens removed for a list of annotations, children included.
RECURSIVE MarkersOf(_)
MarkersOf(tags) ==
    IF tags = <<>> THEN 0
    ELSE (IF TagDefinitionOf(tags[1].tag_name).has_content THEN 2 ELSE 1)
             + MarkersOf(tags[1].children) + MarkersOf(Tail(tags))

Taken(f) == Len(f.cleaned_text_content) + MarkersOf(f.inner_tags)

TakenOnce ==
    /\ \A n \in 1..Len(call_stack) :
          LET f == call_stack[n]
          IN  /\ f.at = "while" => f.current_position_raw = Taken(f)
              /\ f.at = "return" => Len(f.raw) = Taken(f)
              /\ f.current_position_raw <= Len(f.raw)
    /\ parse_pc = "return" =>
          /\ Len(raw_content) = Len(parse_result.cleaned_text_content)
                                   + MarkersOf(parse_result.inner_tags)
          /\ parse_result = parse_text_and_extract_inner_tags(raw_content)
          /\ (Range(raw_content) \cap MarkerTokens = {}) =>
                parse_result = [cleaned_text_content |-> raw_content,
                                inner_tags |-> <<>>]

CursorMovesForward ==
    /\ \* the recursive call is on a strictly shorter text
       (call_stack # <<>> /\ Len(call_stack') = Len(call_stack) + 1) =>
          /\ Len(Last(call_stack').raw) < Len(Last(call_stack).raw)
          /\ Last(call_stack').raw = call_stack'[Len(call_stack)].earliest_match.content
    /\ \* the iteration goes on after the match
       (Len(call_stack') = Len(call_stack) - 1 /\ call_stack' # <<>>) =>
          LET before == call_stack[Len(call_stack) - 1]
              after == Last(call_stack')
          IN  /\ after.current_position_raw > before.current_position_raw
              /\ after.current_position_raw = before.earliest_match.end
              /\ before.earliest_match.start >= before.current_position_raw
    /\ \* the loop ends
       (call_stack # <<>> /\ Len(call_stack') = Len(call_stack)) =>
          Last(call_stack').at = "return"

C19_ParserTerminatesConsumingInputOnce ==
    /\ [][CursorMovesForward /\ TakenOnce /\ TakenOnce']_vars
    /\ <>(parse_pc = "return")

\* <b>[c][c]</b>: the outer call has returned after two nested calls, the
\* innermost on the empty text.
C19_Witness ==
    /\ parse_pc = "return"
    /\ raw_content = <<"<b>", "[c]", "[c]", "</b>">>
    /\ parse_result.cleaned_text_content = <<>>
    /\ Len(parse_result.inner_tags) = 1
    /\ Len(parse_result.inner_tags[1].children) = 1
    /\ call_stack = <<>>

(***************************************************************************)
(* C20: the figure containers are replaced first, then the literal-HTML    *)
(* containers, then the bare images.  Every figure container of the raw    *)
(* text gives way to one token whose entry holds one sub-image per image   *)
(* marker of the container's body, in the body's order; the map has one    *)
(* entry per block marker of the raw text itself and its image entries are *)
(* as many as the raw text's own image markers, so an image marker in a    *)
(* figure body has no token and no entry of its own; and whatever the      *)
(* order in the text, every figure entry's id was requested before every   *)
(* literal-HTML entry's, and these before every image entry's.             *)
(***************************************************************************)
ImagesOf(body) == SelectSeq(body, LAMBDA item : item.kind = "image")

MarkersAt(kind) ==
    {i \in 1..Len(raw_markdown_string) : raw_markdown_string[i].kind = kind}

EntriesWith(field) ==
    {key \in DOMAIN placeholder_map : field \in DOMAIN placeholder_map[key]}

FigureBodiesBecomeSubImages ==
    \A i \in MarkersAt("figure") :
        /\ IsPlaceholder(processed_html[i])
        /\ processed_html[i] \in EntriesWith("figure_content")
        /\ LET images == placeholder_map[processed_html[i]].figure_content.images
               markers == ImagesOf(raw_markdown_string[i].figure_content)
           IN  /\ Len(images) = Len(markers)
               /\ \A n \in 1..Len(markers) :
                      images[n].latex_path = markers[n].image_path

NoEntryForSubImages ==
    /\ Cardinality(DOMAIN placeholder_map)
           = Cardinality(MarkersAt("figure") \cup MarkersAt("html")
                             \cup MarkersAt("image"))
    /\ Cardinality(EntriesWith("image_content")) = Cardinality(MarkersAt("image"))
    /\ Cardinality(EntriesWith("figure_content")) = Cardinality(MarkersAt("figure"))
    /\ \A i \in MarkersAt("image") :
           processed_html[i] \in EntriesWith("image_content")

ContainerIdsFirst ==
    /\ \A f \in EntriesWith("figure_content") :
           \A other \in EntriesWith("html_figure_content")
                           \cup EntriesWith("image_content") : f.id < other.id
    /\ \A h \in EntriesWith("html_figure_content") :
           \A image \in EntriesWith("image_content") : h.id < image.id

C20_ContainersReplacedBeforeBareImages ==
    Preprocessed =>
        /\ FigureBodiesBecomeSubImages
        /\ NoEntryForSubImages
        /\ ContainerIdsFirst

\* A bare image, then a figure container holding two image markers: the
\* figure has the first id and both sub-images, the bare image a later id.
C20_Witness ==
    /\ Preprocessed
    /\ raw_markdown_string =
           << ImageMarker("fig1.png", <<>>),
              FigureMarker(<<ImageMarker("fig1.png", <<"a">>), Char(" "),
                             ImageMarker("fig2.png", <<>>)>>, <<>>) >>
    /\ processed_html[2] = _get_placeholder_id(1)
    /\ Len(placeholder_map[processed_html[2]].figure_content.images) = 2
    /\ processed_html[1].id > 1
    /\ "image_content" \in DOMAIN placeholder_map[processed_html[1]]
    /\ Cardinality(DOMAIN placeholder_map) = 2

(***************************************************************************)
(* convert_to_lumi_sections: the walk over soup.recursiveChildGenerator()  *)
(* and the set visited_tags.                                               *)
(*                                                                         *)
(* A bs4 Tag compares equal to another Tag of the same name, attributes    *)
(* and contents, and hashes as its markup; a string node compares as its   *)
(* text.  A member of the set visited_tags is therefore a node's value,    *)
(* which is what a record is here.  The place of a node is its number in   *)
(* the generator's order.  The walk has no heading here: the heading       *)
(* branch neither reads nor writes visited_tags.                           *)
(***************************************************************************)
MaxBlocks == 3        \* top-level nodes of the soup of the walk

DEFAULT_TEXT_TAGS == {"p", "code", "pre"}

TAGS_TO_PROCESS == DEFAULT_TEXT_TAGS \cup DEFAULT_LIST_TAGS

TextTag(name, contents) == [name |-> name, contents |-> contents]

\* tag.contents
Contents(node) ==
    IF node.name = "#text" THEN <<>>
    ELSE IF node.name \in DEFAULT_LIST_TAGS THEN node.items
    ELSE node.contents

\* tag.descendants: every node below the tag, a node before its children.
RECURSIVE descendants(_)
descendants(node) ==
    LET kids == Contents(node)
        Below[k \in 0..Len(kids)] ==
            IF k = 0 THEN <<>>
            ELSE Below[k - 1] \o <<kids[k]>> \o descendants(kids[k])
    IN  Below[Len(kids)]

\* soup.recursiveChildGenerator()
recursiveChildGenerator(top) == descendants(TextTag("[document]", top))

\* tag not in visited_tags
NotVisited(node, visited) == node \notin visited

\* A <p>/<code>/<pre> holding text, a <p> holding a <code>, and lists: one
\* holding a <p> in its item, one holding a nested list, a plain one.
WalkBlocks ==
    { TextTag("p", << TextNode(<<"a">>) >>),
      TextTag("p", << TextNode(<<"x">>) >>),
      TextTag("code", << TextNode(<<"a">>) >>),
      TextTag("p", << TextTag("code", << TextNode(<<"a">>) >>) >>),
      ListTag(UNORDERED_LIST_TAG,
              << LiTag(<< TextTag("p", << TextNode(<<"a">>) >>) >>) >>),
      NestedX,
      NestedDeep }

WalkInit ==
    /\ soup \in SeqsUpTo(WalkBlocks, MaxBlocks)
    /\ walk_next = 0
    /\ visited_tags = {}
    /\ walk_contents = <<>>
    /\ SectionsIdle /\ ParseIdle /\ SpansIdle /\ FigIdle /\ ListIdle /\ RefsIdle
    /\ MainIdle /\ TxIdle

\* The loop body for a tag to process that is not in visited_tags: its
\* contents are added (every block here holds text or is a list, so there
\* are some) and the tag and its descendants enter visited_tags.
WalkProcess ==
    /\ walk_next < Len(recursiveChildGenerator(soup))
    /\ \E node \in {recursiveChildGenerator(soup)[walk_next + 1]} :
          /\ NotVisited(node, visited_tags) /\ node.name \in TAGS_TO_PROCESS
          /\ walk_contents' =
                 Append(walk_contents, [place |-> walk_next + 1, name |-> node.name])
          /\ visited_tags' = visited_tags \cup {node} \cup Range(descendants(node))
    /\ walk_next' = walk_next + 1
    /\ UNCHANGED <<soup, sectionVars, parseVars, spansVars, figVars, listVars,
                   refVars, mainVars, txVars>>

\* The loop body for any other node: nothing is done.
WalkSkip ==
    /\ walk_next < Len(recursiveChildGenerator(soup))
    /\ \E node \in {recursiveChildGenerator(soup)[walk_next + 1]} :
          ~(NotVisited(node, visited_tags) /\ node.name \in TAGS_TO_PROCESS)
    /\ walk_next' = walk_next + 1
    /\ UNCHANGED <<soup, visited_tags, walk_contents, sectionVars, parseVars,
                   spansVars, figVars, listVars, refVars, mainVars, txVars>>

WalkNext == WalkProcess \/ WalkSkip

SpecWalk == WalkInit /\ [][WalkNext]_vars

(***************************************************************************)
(* C21: when the walk is over, every block (p, code, pre, ul, ol) that is  *)
(* not inside another block has given exactly one contribution to the      *)
(* contents, and a block inside another block has given none of its own.   *)
(***************************************************************************)
WalkOver == soup # <<>> /\ walk_next = Len(recursiveChildGenerator(soup))

\* The places of the blocks, and of the nodes below the node at a place.
BlockPlaces ==
    {k \in 1..Len(recursiveChildGenerator(soup)) :
        recursiveChildGenerator(soup)[k].name \in TAGS_TO_PROCESS}

PlacesBelow(k) ==
    (k + 1)..(k + Len(descendants(recursiveChildGenerator(soup)[k])))

InsideABlock(k) == \E outer \in BlockPlaces : k \in PlacesBelow(outer)

ContributionsOf(k) ==
    Cardinality({n \in 1..Len(walk_contents) : walk_contents[n].place = k})

C21_EachBlockContributesOnce ==
    WalkOver =>
        \A k \in BlockPlaces :
            ContributionsOf(k) = IF InsideABlock(k) THEN 0 ELSE 1

(***************************************************************************)
(* C22: an item of the list given to _get_list_content_from_tag that       *)
(* holds a nested list and, outside that first nested list, only text      *)
(* that parses to whitespace or nothing and to no annotation, is returned  *)
(* at its own place in list_items with an empty spans sequence and with    *)
(* the nested list as its subListContent.                                  *)
(***************************************************************************)
\* The raw text of the item: get_text() of every child but the first
\* nested list.
RECURSIVE RawLiContent(_, _, _)
RawLiContent(contents, k, list_seen) ==
    IF k > Len(contents) THEN <<>>
    ELSE IF IsListNode(contents[k]) /\ ~list_seen
    THEN RawLiContent(contents, k + 1, TRUE)
    ELSE get_text(contents[k]) \o RawLiContent(contents, k + 1, list_seen)

HoldsList(li) == \E k \in 1..Len(li.contents) : IsListNode(li.contents[k])

NoVisibleText(li) ==
    IsBlank(parse_text_and_extract_inner_tags(
                RawLiContent(li.contents, 1, FALSE)).cleaned_text_content)

NoAnnotation(li) ==
    parse_text_and_extract_inner_tags(
        RawLiContent(li.contents, 1, FALSE)).inner_tags = <<>>

EmptySpansWithSubList(n) ==
    /\ Len(list_content[1].list_content.list_items) = Len(tag.items)
    /\ list_content[1].list_content.list_items[n].spans = <<>>
    /\ Len(list_content[1].list_content.list_items[n].subListContent) = 1

IdsInit == FigInit \/ ListInit

IdsNext == FigNext \/ ListNext

SpecIds == IdsInit /\ [][IdsNext]_vars

\* The spans of a ListContent, those of its nested lists included, and the
\* number of its nested lists at every depth.
RECURSIVE SpansInList(_)
SpansInList(list) ==
    LET Total[k \in 0..Len(list.list_items)] ==
            IF k = 0 THEN 0
            ELSE Total[k - 1] + Len(list.list_items[k].spans)
                     + (IF list.list_items[k].subListContent = <<>> THEN 0
                        ELSE SpansInList(list.list_items[k].subListContent[1]))
    IN  Total[Len(list.list_items)]

RECURSIVE NestedListsIn(_)
NestedListsIn(list) ==
    LET Total[k \in 0..Len(list.list_items)] ==
            IF k = 0 THEN 0
            ELSE Total[k - 1]
                     + (IF list.list_items[k].subListContent = <<>> THEN 0
                        ELSE 1 + NestedListsIn(list.list_items[k].subListContent[1]))
    IN  Total[Len(list.list_items)]

\* The caption spans a Content of the map holds.
RECURSIVE CaptionsOfImages(_)
CaptionsOfImages(images) ==
    IF images = <<>> THEN 0
    ELSE Len(images[1].caption) + CaptionsOfImages(Tail(images))

CaptionSpans(content) ==
    IF "image_content" \in DOMAIN content THEN Len(content.image_content.caption)
    ELSE IF "figure_content" \in DOMAIN content
    THEN Len(content.figure_content.caption)
             + CaptionsOfImages(content.figure_content.images)
    ELSE IF "html_figure_content" \in DOMAIN content
    THEN Len(content.html_figure_content.caption)
    ELSE 0

\* Contents and spans of a list of Contents.
RECURSIVE EntitiesIn(_)
EntitiesIn(contents) ==
    IF contents = <<>> THEN 0
    ELSE 1 + (IF IsTextContent(contents[1])
              THEN Len(contents[1].text_content.spans)
              ELSE CaptionSpans(contents[1]))
           + EntitiesIn(Tail(contents))

RECURSIVE MapEntities(_, _)
MapEntities(map, keys) ==
    IF keys = {} THEN 0
    ELSE LET key == CHOOSE k \in keys : TRUE
         IN  1 + CaptionSpans(map[key]) + MapEntities(map, keys \ {key})

\* What the extraction and the block parser request.
ExtractorRequestsOncePerEntity ==
    /\ fig_pc = "preprocessed" =>
           id_calls = MapEntities(placeholder_map, DOMAIN placeholder_map)
    /\ fig_pc = "return" =>
           /\ id_calls = EntitiesIn(lumi_contents)
           /\ \A n \in 1..Len(processed_html) :
                  IsPlaceholder(processed_html[n])
                      /\ processed_html[n] \in DOMAIN placeholder_map
                    => placeholder_map[processed_html[n]].id = processed_html[n].id
    /\ fig_pc = "none" => id_calls = 0

(***************************************************************************)
(* C23: the extraction makes one request per entry of the map and one per  *)
(* caption span, a token and its Content sharing the request; the block    *)
(* parser's result holds as many Contents and spans as requests were made; *)
(* _get_list_content_from_tag makes one request for the Content returned,  *)
(* one per span of the list at every depth, and one more for every nested  *)
(* list, whose own Content is made and then dropped for its list_content.  *)
(***************************************************************************)
C23_OneRequestPerEntityAndPerNestedList ==
    /\ ExtractorRequestsOncePerEntity
    /\ list_pc = "return" =>
           list_content[1].id = 1 + SpansInList(list_content[1].list_content)
                                  + NestedListsIn(list_content[1].list_content)

\* C23 as stated: as many requests as entities in the result.
C23_AsManyRequestsAsEntities ==
    /\ ExtractorRequestsOncePerEntity
    /\ list_pc = "return" =>
           list_content[1].id = 1 + SpansInList(list_content[1].list_content)

\* <ul><li>a<ul><li>x</li></ul></li></ul>: four requests, for two spans,
\* the nested list's dropped Content and the Content returned.
C23_Witness ==
    /\ list_pc = "return"
    /\ tag = ListTag(UNORDERED_LIST_TAG,
                     << LiTag(<< TextNode(<<"a">>), NestedX >>) >>)
    /\ list_content[1].id = 4
    /\ SpansInList(list_content[1].list_content) = 2
    /\ NestedListsIn(list_content[1].list_content) = 1

(***************************************************************************)
(* C24: a request_arxiv_doc_import call that reaches _try_doc_write leaves *)
(* a document that exists with a loadingStatus other than ERROR as it is;  *)
(* when there is no document, or the document is in ERROR, it sets the     *)
(* document to loadingStatus WAITING and the metadata, nothing else.       *)
(***************************************************************************)
TryDocWriteCalled ==
    /\ Called("request_arxiv_doc_import")
    /\ "_try_doc_write" \in Range(last_call.calls)

C25_StackIsRightmostPath ==
    /\ \A n \in 1..(Len(section_stack) - 1) :
           /\ LevelOf(section_stack[n]) < LevelOf(section_stack[n + 1])
           /\ sections[section_stack[n]].sub_sections # <<>>
           /\ section_stack[n + 1] = Last(sections[section_stack[n]].sub_sections)
    /\ section_stack # <<>> =>
           /\ root_sections # <<>>
           /\ section_stack[1] = Last(root_sections)
    /\ section_stack = <<>> => blocks = <<>>

\* H1, H2, H3, H2: the second H2 is the last sub-section of the H1.
C25_Witness ==
    /\ blocks = <<H(1), H(2), H(3), H(2)>>
    /\ section_stack = <<1, 4>>
    /\ sections[1].sub_sections = <<2, 4>>
    /\ sections[2].sub_sections = <<3>>
    /\ root_sections = <<1>>

(***************************************************************************)
(* C26: there is at most one section of level 0; once it is there it stays *)
(* at the bottom of the stack under every heading h1, h2, ..., it is the    *)
(* only top-level section, and every other section is below it.            *)
(***************************************************************************)
SyntheticSections == {s \in DOMAIN sections : LevelOf(s) = 0}

\* The section is the section `top` or a sub-section, at some depth, of it.
RECURSIVE IsBelow(_, _)
IsBelow(s, top) ==
    \/ s = top
    \/ \E p \in DOMAIN sections :
          /\ p < s
          /\ s \in Range(sections[p].sub_sections)
          /\ IsBelow(p, top)

C26_SyntheticSectionStaysTheOnlyRoot ==
    /\ Cardinality(SyntheticSections) <= 1
    /\ \A synthetic \in SyntheticSections :
           /\ root_sections = <<synthetic>>
           /\ section_stack[1] = synthetic
           /\ \A s \in DOMAIN sections : IsBelow(s, synthetic)

\* A paragraph, then H2, H1 and a paragraph: both headings are
\* sub-sections of the synthetic section.
C26_Witness ==
    /\ blocks = <<P, H(2), H(1), P>>
    /\ SyntheticSections = {1}
    /\ root_sections = <<1>>
    /\ sections[1].sub_sections = <<2, 3>>
    /\ section_stack = <<1, 3>>
    /\ sections[3].contents = <<4>>

(***************************************************************************)
(* C27: on the split path of create_lumi_spans no annotation is lost:      *)
(* every given annotation with 0 <= start <= end <= len(cleaned_text) has  *)
(* a copy in at least one returned span, zero-width annotations and        *)
(* annotations wholly inside the whitespace between two sentences          *)
(* included, and every sentence of the segmenter yields a span.            *)
(***************************************************************************)
AttachedSomewhere(annotation) ==
    \E n \in 1..Len(lumi_spans) : \E j \in 1..Len(lumi_spans[n].inner_tags) :
        /\ lumi_spans[n].inner_tags[j].tag_name = annotation.tag_name
        /\ lumi_spans[n].inner_tags[j].metadata = annotation.metadata

C27_NoAnnotationLost ==
    SplitPath =>
        /\ Len(lumi_spans) = Len(sent_tokenize(cleaned_text, no_break))
        /\ \A k \in 1..Len(all_inner_tags) :
               WithinText(all_inner_tags[k], cleaned_text)
                   => AttachedSomewhere(all_inner_tags[k])

(***************************************************************************)
(* C28: in every annotation list parse_text_and_extract_inner_tags         *)
(* returns, the top-level list and every children list, the siblings are   *)
(* in document order without overlap (each one's end <= the next one's     *)
(* start), every annotation has 0 <= start <= end <= the length of the     *)
(* cleaned text of its scope, and every child's offsets lie within         *)
(* [0, parent.end - parent.start].                                         *)
(***************************************************************************)
SiblingsInDocumentOrder(tags) ==
    \A k \in 1..(Len(tags) - 1) :
        tags[k].position.end_index <= tags[k + 1].position.start_index

WithinScope(inner_tag, scope_len) ==
    /\ 0 <= inner_tag.position.start_index
    /\ inner_tag.position.start_index <= inner_tag.position.end_index
    /\ inner_tag.position.end_index <= scope_len

\* The cleaned text of an annotation's own scope is the part of the
\* enclosing cleaned text that its interval covers.
RECURSIVE WellNested(_, _)
WellNested(tags, scope_text) ==
    /\ SiblingsInDocumentOrder(tags)
    /\ \A k \in 1..Len(tags) :
           /\ WithinScope(tags[k], Len(scope_text))
           /\ \A c \in 1..Len(tags[k].children) :
                  WithinScope(tags[k].children[c],
                              tags[k].position.end_index
                                  - tags[k].position.start_index)
           /\ WellNested(tags[k].children,
                         Slice(scope_text, tags[k].position.start_index,
                               tags[k].position.end_index))

C28_AnnotationListsOrderedAndWithinScope ==
    parse_pc = "return" =>
        WellNested(parse_result.inner_tags, parse_result.cleaned_text_content)

\* "a<b>[c]x[c]</b>": bold over "x" at 1..2 and the concept at 0..1 of the
\* bold text.  "<b>a</b>[z][c][c]": three siblings, the last two of width 0
\* at the end of the first.
C28_Witness ==
    /\ parse_pc = "return"
    /\ \/ /\ raw_content = <<"a", "<b>", "[c]", "x", "[c]", "</b>">>
          /\ parse_result.cleaned_text_content = <<"a", "x">>
          /\ parse_result.inner_tags
                 = << InnerTag("b", "none", Position(1, 2),
                         << InnerTag("concept", "id:c", Position(0, 1), <<>>) >>) >>
       \/ /\ raw_content = <<"<b>", "a", "</b>", "[z]", "[c]", "[c]">>
          /\ parse_result.cleaned_text_content = <<"a">>
          /\ parse_result.inner_tags
                 = << InnerTag("b", "none", Position(0, 1), <<>>),
                      InnerTag("marker", "none", Position(1, 1), <<>>),
                      InnerTag("concept", "id:c", Position(1, 1), <<>>) >>

(***************************************************************************)
(* The chain of trigger invocations that a WAITING document starts, with   *)
(* nobody else writing the document but request_arxiv_doc_import.  Every   *)
(* queued snapshot is delivered to the trigger in the end, and every       *)
(* invocation ends: its import or summarization call returns or raises     *)
(* (the function has timeout_sec=540).  A request is let in only while     *)
(* the write bound leaves room for its own write and the two updates of    *)
(* its chain, so that the bound never holds an invocation up.              *)
(***************************************************************************)
WritesPerRequest == 3

ChainRequested ==
    /\ n_writes + WritesPerRequest <= MaxWrites
    /\ ImportRequested

ChainNext ==
    /\ \/ \E i \in 1..Len(events) : on_document_import_requested(i)
       \/ \E k \in 1..Len(running), raised \in BOOLEAN : InvocationEnds(k, raised)
       \/ ChainRequested
    /\ UNCHANGED <<sectionVars, parseVars, spansVars, figVars, listVars, refVars, walkVars, txVars>>

SpecChain ==
    /\ MainInit
    /\ [][ChainNext]_vars
    /\ WF_mainVars(\E i \in 1..Len(events) : on_document_import_requested(i))
    /\ WF_mainVars(\E k \in 1..Len(running), raised \in BOOLEAN :
                       InvocationEnds(k, raised))

(***************************************************************************)
(* C29: starting from a document written with loadingStatus WAITING, the   *)
(* chain of write-triggered invocations of on_document_import_requested    *)
(* terminates: provided each import and summarization call returns or      *)
(* raises, the document eventually reaches SUCCESS or ERROR, in the end no *)
(* snapshot is waiting for the trigger and no invocation is at work, and   *)
(* an invocation triggered by a write that leaves the status at SUCCESS or *)
(* ERROR performs no further write (it is never at work, and its call      *)
(* leaves the document as it is).                                          *)
(***************************************************************************)
FinalStatus == {"SUCCESS", "ERROR"}

ChainAtRest == events = <<>> /\ running = <<>>

NoWriteForFinalStatus ==
    /\ \A k \in 1..Len(running') : running'[k].loadingStatus \notin FinalStatus
    /\ TriggerCalled => doc' = doc

C29_TriggerChainTerminates ==
    /\ (doc.exists /\ doc.loadingStatus = "WAITING")
           ~> (doc.exists /\ doc.loadingStatus \in FinalStatus)
    /\ <>[]ChainAtRest
    /\ [][NoWriteForFinalStatus]_vars

\* A request wrote the WAITING document, the import and the summarization
\* each wrote their update, and the three snapshots have been delivered.
C29_Witness ==
    /\ doc = Document("SUCCESS", {"metadata", "lumi_doc", "summaries"})
    /\ n_writes = WritesPerRequest
    /\ ChainAtRest

(***************************************************************************)
(* Concurrent request_arxiv_doc_import calls and the trigger.              *)
(*                                                                         *)
(* _create_doc_transaction reads the document with doc_ref.get(), without  *)
(* the transaction argument, so the read is an ordinary read and not part  *)
(* of the transaction: the transaction holds the one set and commits       *)
(* whatever has happened to the document since the read.  A call is        *)
(* therefore two steps, the read and the rest, and other calls and the     *)
(* trigger's invocations can act between them.                             *)
(***************************************************************************)
MaxRequests == 2      \* _try_doc_write calls between their read and their write

\* doc = doc_ref.get()
TransactionReads ==
    /\ Len(snapshots) < MaxRequests
    /\ snapshots' = Append(snapshots, doc)
    /\ UNCHANGED mainVars

\* The rest of _create_doc_transaction, decided on the snapshot read: return,
\* or transaction.set(doc_ref, doc_data) and the commit.
TransactionEnds(r) ==
    /\ snapshots' = Remove(snapshots, r)
    /\ IF _try_doc_write(snapshots[r]) = snapshots[r]
       THEN UNCHANGED <<doc, events, n_writes>>
       ELSE /\ n_writes < MaxWrites
            /\ doc' = _try_doc_write(snapshots[r])
            /\ events' = Append(events, doc')
            /\ n_writes' = n_writes + 1
    /\ UNCHANGED <<running, last_call>>

RaceNext ==
    /\ \/ /\ \E i \in 1..Len(events) : on_document_import_requested(i)
          /\ UNCHANGED snapshots
       \/ /\ \E k \in 1..Len(running), raised \in BOOLEAN : InvocationEnds(k, raised)
          /\ UNCHANGED snapshots
       \/ TransactionReads
       \/ \E r \in 1..Len(snapshots) : TransactionEnds(r)
    /\ UNCHANGED <<sectionVars, parseVars, spansVars, figVars, listVars, refVars, walkVars>>

SpecRace == MainInit /\ [][RaceNext]_vars

(***************************************************************************)
(* C30: under any interleaving of concurrent request_arxiv_doc_import      *)
(* calls for the same paper version with each other and with the trigger   *)
(* handler, a document whose loadingStatus is WAITING, SUMMARIZING or       *)
(* SUCCESS is never overwritten by a fresh WAITING record: a call's write  *)
(* finds the document missing or in ERROR, and takes no field (imported    *)
(* content, summaries) away from a document with another status.           *)
(***************************************************************************)
RequestWrites ==
    /\ Len(snapshots') < Len(snapshots)
    /\ n_writes' = n_writes + 1

OnlyMissingOrErrorReinitialised ==
    RequestWrites => (~doc.exists \/ doc.loadingStatus = "ERROR")

C30_LiveDocumentNeverOverwritten == [][OnlyMissingOrErrorReinitialised]_vars
=============================================================================
